---- MODULE Spec2Model ----
(***************************************************************************)
(* Model of the signaling broker (server/webrtc/signaling.js, kept in      *)
(* src/unnamed/part_000), of the server detection pipeline                 *)
(* (server/detection/detection-service.js) with the handlers of            *)
(* server/index.js that drive it, and of the metrics collector.            *)
(*                                                                         *)
(* Node runs every handler to its first await without interleaving, so one *)
(* action is one run of a handler (or of a continuation) between two       *)
(* returns to the event loop, microtasks included.                         *)
(***************************************************************************)
EXTENDS FiniteSets, Integers, Sequences, TLC

(* ---------------------------------------------------------------------- *)
(* JavaScript values                                                       *)
(* ---------------------------------------------------------------------- *)

\* JS null and undefined, kept apart from every string a client can send.
NULL == "<null>"

UNDEFINED == "<undefined>"

\* JS truthiness of a string-or-null value: null, undefined and "" are falsy.
Truthy(v) == v \notin {NULL, UNDEFINED, ""}

\* JS numbers as the collector computes them: a finite number is kept as an
\* exact fraction num / den in lowest terms (den > 0), next to NaN and the
\* two infinities.
JSNum(n) == [kind |-> "number", num |-> n, den |-> 1]

NaN == [kind |-> "NaN", num |-> 0, den |-> 1]

PosInfinity == [kind |-> "Infinity", num |-> 0, den |-> 1]

NegInfinity == [kind |-> "-Infinity", num |-> 0, den |-> 1]

RECURSIVE GCD(_, _)
GCD(a, b) == IF b = 0 THEN a ELSE GCD(b, a % b)

\* a / b for integers a and b >= 0: x / 0 is NaN for x = 0 and an infinity
\* otherwise.
Divide(a, b) ==
    IF b = 0
    THEN IF a = 0 THEN NaN ELSE IF a > 0 THEN PosInfinity ELSE NegInfinity
    ELSE LET g == GCD(IF a < 0 THEN -a ELSE a, b)
         IN  [kind |-> "number", num |-> a \div g, den |-> b \div g]

\* v || 0: 0 and NaN are falsy, every other number is truthy.
OrZero(v) ==
    IF v.kind = "NaN" \/ (v.kind = "number" /\ v.num = 0) THEN JSNum(0) ELSE v

(* ---------------------------------------------------------------------- *)
(* Bounds of the broker model                                              *)
(* ---------------------------------------------------------------------- *)

\* Socket ids. A socket id is used for one connection only.
Peers == {"p1", "p2"}

\* Room ids a client may send: the empty string, a plain name, and a name
\* that equals a socket id (room ids are arbitrary client strings).
RoomIds == {"", "r1", "p1"}

\* Roles a client may register.
Types == {"phone", "desktop"}

\* Opaque payloads of relayed messages, per event: session descriptions,
\* ICE candidates and data-channel messages.
Offers == {"sdpA", "sdpB"}
Answers == {"sdpC"}
Candidates == {"cand1"}
Messages == {"msg1"}

\* The arguments of an event that was sent without a body: data is undefined.
NoData == "<no data>"

\* targetId values a client may send: socket ids and any other string.
TargetIds == Peers \cup RoomIds

RelayKinds == {"offer", "answer", "ice-candidate", "data-channel-message"}

\* Malformed bodies of a relay event: a body without targetId, and no body.
MalformedRelays(payloads) ==
    {[targetId |-> UNDEFINED, payload |-> x] : x \in payloads}
    \cup {[targetId |-> NoData, payload |-> NoData]}

\* roomId values of the malformed-input runs: a plain name, the empty string
\* and a body without roomId.
MalformedRoomIds == {"r1", "", UNDEFINED}

\* Largest value of the wall clock.
MaxNow == 1

VARIABLES
    phase,      \* socket id -> "new" | "open" | "closed" (socket.io connection)
    clients,    \* this.clients: socket id -> [type, room]
    rooms,      \* this.rooms: room id -> [clients, created]
    sio,        \* socket.io adapter: socket id -> set of channels it is in
    outbox,     \* messages delivered to sockets by the last handler
    last,       \* the last handler that ran, with its arguments
    thrown,     \* the error the last handler threw, NULL when it returned
    now,        \* Date.now()
    \* ObjectDetectionService
    mode,             \* this.mode: "server" | "wasm"
    session,          \* this.session is set (TRUE) or null (FALSE)
    initialized,      \* this.initialized
    maxQueueSize,     \* this.maxQueueSize
    processingQueue,  \* this.processingQueue: the frames waiting, oldest first
    isProcessing,     \* this.isProcessing
    active,           \* frames whose runInference call has not settled yet
    \* the detection handlers of index.js and what became of their requests
    transport,        \* how this run's clients send frames: "http" | "ws"
    nextFrame,        \* number of the next detection request
    pending,          \* request -> [captureTs, recvTs]: awaiting detectObjects
    outcome,          \* request -> "result" | "error": what the transport sent
    dispatched,       \* the frames handed to runInference, in call order
    evicted,          \* the frames shifted out of the queue by an admission
    ev,               \* the last pipeline step, with what it did
    \* MetricsCollector
    frames,           \* this.frames
    totalFrames,
    processedFrames,
    droppedFrames,
    latencies,        \* this.latencies: endToEnd, network, inference, overlay
    lastResetTime,    \* this.lastResetTime
    bandwidth,        \* this.bandwidth: uplink, downlink of [value, timestamp]
    systemMetrics,    \* this.systemMetrics: cpuUsage, memoryUsage, timestamp
    snapshot,         \* what getMetrics returned, when the last call was getMetrics
    call,             \* the last call made on the collector, when it was a
                      \* reset, a recordDroppedFrame or a helper called on its own
    \* DetectionManager of the desktop page (dm: its fields share their names
    \* with those of the server's service)
    dmInitialized,     \* initialize() has returned
    dmSession,         \* this.session is set (TRUE) or null (FALSE)
    dmIsProcessing,    \* this.isProcessing
    dmProcessingQueue, \* this.processingQueue: the frames waiting, oldest first
    dmActive,          \* frames whose runWASMInference call has not settled yet
    dmNextFrame,       \* number of the next detectWASM call
    dmReturned,        \* call -> "empty" | "detections": what detectWASM returned
    dmEvicted          \* the frames shifted out of the client queue

brokerVars == <<phase, clients, rooms, sio, outbox, last, thrown>>

serviceVars == <<mode, session, initialized, maxQueueSize, processingQueue,
                 isProcessing, active>>

handlerVars == <<transport, nextFrame, pending, outcome, dispatched, evicted, ev>>

metricsVars == <<frames, totalFrames, processedFrames, droppedFrames, latencies,
                 lastResetTime, bandwidth, systemMetrics, snapshot, call>>

pipeVars == <<serviceVars, handlerVars, metricsVars>>

managerVars == <<dmInitialized, dmSession, dmIsProcessing, dmProcessingQueue,
                 dmActive, dmNextFrame, dmReturned, dmEvicted>>

vars == <<brokerVars, now, pipeVars, managerVars>>

(* ---------------------------------------------------------------------- *)
(* socket.io delivery                                                      *)
(* ---------------------------------------------------------------------- *)

\* One delivered event; unused fields are NULL / {}.
Msg(to, event, clientId, fromId, type, payload, roomId, members) ==
    [to |-> to, event |-> event, clientId |-> clientId, fromId |-> fromId,
     type |-> type, payload |-> payload, roomId |-> roomId, clients |-> members]

\* socket.emit(event, body): reaches the socket itself while it is connected.
SocketEmit(p, m) == IF phase[p] = "open" THEN {[m EXCEPT !.to = p]} ELSE {}

\* socket.to(channel).emit(event, body): reaches every socket that is in the
\* adapter channel, the emitting socket excepted.
SocketToEmit(p, channel, adapter, m) ==
    {[m EXCEPT !.to = q] : q \in {x \in Peers \ {p} : channel \in adapter[x]}}

Last(op, id, roomId, type, targetId, payload) ==
    [op |-> op, id |-> id, roomId |-> roomId, type |-> type,
     targetId |-> targetId, payload |-> payload]

(* ---------------------------------------------------------------------- *)
(* WebRTCSignaling                                                         *)
(* ---------------------------------------------------------------------- *)

\* removeFromRoom(roomId, clientId) applied to a room map.
removeFromRoom(rm, roomId, clientId) ==
    IF roomId \in DOMAIN rm
    THEN LET left == rm[roomId].clients \ {clientId}
         IN  IF Cardinality(left) = 0
             THEN [r \in DOMAIN rm \ {roomId} |-> rm[r]]
             ELSE [rm EXCEPT ![roomId].clients = left]
    ELSE rm

\* memberType that reports 'unknown' for every member.
memberType_Unknown(cl, id) == "unknown"

\* The role reported for a member id: its registered type, 'unknown' when the
\* id is not in this.clients.
memberType(cl, id) == IF id \in DOMAIN cl THEN cl[id].type ELSE "unknown"

\* getRoomInfo(roomId): found = FALSE stands for the null result.
getRoomInfo(roomId) ==
    IF roomId \notin DOMAIN rooms
    THEN [found |-> FALSE, roomId |-> roomId, clients |-> {}, created |-> 0]
    ELSE [found |-> TRUE, roomId |-> roomId,
          clients |-> {[clientId |-> id, type |-> memberType(clients, id)] :
                          id \in rooms[roomId].clients},
          created |-> rooms[roomId].created]

getRoomCount == Cardinality(DOMAIN rooms)

getClientCount == Cardinality(DOMAIN clients)

\* io.on('connection'): socket.io puts the new socket in the channel named by
\* its own id, then handleConnection stores the client record.
handleConnection(p) ==
    /\ phase[p] = "new"
    /\ phase' = [phase EXCEPT ![p] = "open"]
    /\ sio' = [sio EXCEPT ![p] = {p}]
    /\ clients' = [q \in DOMAIN clients \cup {p} |->
                      IF q = p THEN [type |-> NULL, room |-> NULL] ELSE clients[q]]
    /\ outbox' = {}
    /\ last' = Last("connection", p, NULL, NULL, NULL, NULL)
    /\ thrown' = NULL
    /\ UNCHANGED <<rooms, now, pipeVars, managerVars>>

\* handleRegister that keeps the first type a client registered.
handleRegister_KeepFirst(p, type) ==
    /\ IF p \in DOMAIN clients
       THEN /\ clients' = [clients EXCEPT ![p].type = IF @ = NULL THEN type ELSE @]
            /\ outbox' = SocketEmit(p, Msg(p, "registered", p, NULL, type, NULL, NULL, {}))
       ELSE /\ clients' = clients
            /\ outbox' = {}
    /\ last' = Last("register", p, NULL, type, NULL, NULL)
    /\ thrown' = NULL
    /\ UNCHANGED <<phase, rooms, sio, now, pipeVars, managerVars>>

handleRegister(p, type) ==
    /\ IF p \in DOMAIN clients
       THEN /\ clients' = [clients EXCEPT ![p].type = type]
            /\ outbox' = SocketEmit(p, Msg(p, "registered", p, NULL, type, NULL, NULL, {}))
       ELSE /\ clients' = clients
            /\ outbox' = {}
    /\ last' = Last("register", p, NULL, type, NULL, NULL)
    /\ thrown' = NULL
    /\ UNCHANGED <<phase, rooms, sio, now, pipeVars, managerVars>>

handleJoinRoom(p, roomId) ==
    /\ IF p \notin DOMAIN clients
       THEN /\ outbox' = {}
            /\ UNCHANGED <<clients, rooms, sio>>
       ELSE LET client == clients[p]
                leaving == Truthy(client.room)
                \* socket.leave(client.room); this.removeFromRoom(...)
                sio1 == IF leaving THEN [sio EXCEPT ![p] = @ \ {client.room}] ELSE sio
                rooms1 == IF leaving THEN removeFromRoom(rooms, client.room, p) ELSE rooms
                \* socket.join(roomId); client.room = roomId
                sio2 == [sio1 EXCEPT ![p] = @ \cup {roomId}]
                \* initialize the room if it does not exist
                rooms2 == IF roomId \in DOMAIN rooms1
                          THEN rooms1
                          ELSE [r \in DOMAIN rooms1 \cup {roomId} |->
                                   IF r = roomId
                                   THEN [clients |-> {}, created |-> now]
                                   ELSE rooms1[r]]
                rooms3 == [rooms2 EXCEPT ![roomId].clients = @ \cup {p}]
                clients1 == [clients EXCEPT ![p].room = roomId]
                roomClients == {[clientId |-> id, type |-> memberType(clients1, id)] :
                                   id \in rooms3[roomId].clients \ {p}}
            IN  /\ sio' = sio2
                /\ rooms' = rooms3
                /\ clients' = clients1
                /\ outbox' =
                      SocketToEmit(p, roomId, sio2,
                          Msg(NULL, "peer-joined", p, NULL, client.type, NULL, NULL, {}))
                      \cup SocketEmit(p,
                          Msg(p, "room-joined", NULL, NULL, NULL, NULL, roomId, roomClients))
    /\ last' = Last("join-room", p, roomId, NULL, NULL, NULL)
    /\ thrown' = NULL
    /\ UNCHANGED <<phase, now, pipeVars, managerVars>>

\* mayRelay without the test of client.room.
mayRelay_NoRoomTest(p) == p \in DOMAIN clients

\* The guard shared by handleOffer, handleAnswer, handleIceCandidate and
\* handleDataChannelMessage: if (!client || !client.room) return;
mayRelay(p) == p \in DOMAIN clients /\ Truthy(clients[p].room)

\* The four relay handlers: socket.to(targetId).emit(kind, {fromId:
\* socket.id, <field>: <payload>}) when the guard lets the message through.
\* An event sent without a body (targetId = NoData) comes from a connected
\* socket and makes the destructuring of data in the first line throw a
\* TypeError.
handleOffer(p, targetId, offer) ==
    /\ targetId = NoData => phase[p] = "open"
    /\ outbox' = IF targetId # NoData /\ mayRelay(p)
                 THEN SocketToEmit(p, targetId, sio,
                          Msg(NULL, "offer", NULL, p, NULL, offer, NULL, {}))
                 ELSE {}
    /\ thrown' = IF targetId = NoData THEN "TypeError" ELSE NULL
    /\ last' = Last("offer", p, NULL, NULL, targetId, offer)
    /\ UNCHANGED <<phase, clients, rooms, sio, now, pipeVars, managerVars>>

handleAnswer(p, targetId, answer) ==
    /\ targetId = NoData => phase[p] = "open"
    /\ outbox' = IF targetId # NoData /\ mayRelay(p)
                 THEN SocketToEmit(p, targetId, sio,
                          Msg(NULL, "answer", NULL, p, NULL, answer, NULL, {}))
                 ELSE {}
    /\ thrown' = IF targetId = NoData THEN "TypeError" ELSE NULL
    /\ last' = Last("answer", p, NULL, NULL, targetId, answer)
    /\ UNCHANGED <<phase, clients, rooms, sio, now, pipeVars, managerVars>>

handleIceCandidate(p, targetId, candidate) ==
    /\ targetId = NoData => phase[p] = "open"
    /\ outbox' = IF targetId # NoData /\ mayRelay(p)
                 THEN SocketToEmit(p, targetId, sio,
                          Msg(NULL, "ice-candidate", NULL, p, NULL, candidate, NULL, {}))
                 ELSE {}
    /\ thrown' = IF targetId = NoData THEN "TypeError" ELSE NULL
    /\ last' = Last("ice-candidate", p, NULL, NULL, targetId, candidate)
    /\ UNCHANGED <<phase, clients, rooms, sio, now, pipeVars, managerVars>>

handleDataChannelMessage(p, targetId, message) ==
    /\ targetId = NoData => phase[p] = "open"
    /\ outbox' = IF targetId # NoData /\ mayRelay(p)
                 THEN SocketToEmit(p, targetId, sio,
                          Msg(NULL, "data-channel-message", NULL, p, NULL, message, NULL, {}))
                 ELSE {}
    /\ thrown' = IF targetId = NoData THEN "TypeError" ELSE NULL
    /\ last' = Last("data-channel-message", p, NULL, NULL, targetId, message)
    /\ UNCHANGED <<phase, clients, rooms, sio, now, pipeVars, managerVars>>

\* handleDisconnect that leaves the client record in this.clients.
handleDisconnect_KeepRecord(p) ==
    /\ phase[p] # "new"
    /\ phase' = [phase EXCEPT ![p] = "closed"]
    /\ sio' = [sio EXCEPT ![p] = {}]
    /\ IF p \in DOMAIN clients
       THEN LET client == clients[p]
            IN  /\ rooms' = IF Truthy(client.room)
                            THEN removeFromRoom(rooms, client.room, p)
                            ELSE rooms
                /\ outbox' = IF Truthy(client.room)
                             THEN SocketToEmit(p, client.room, sio',
                                      Msg(NULL, "peer-left", p, NULL, NULL, NULL, NULL, {}))
                             ELSE {}
                /\ clients' = clients
       ELSE /\ outbox' = {}
            /\ UNCHANGED <<clients, rooms>>
    /\ last' = Last("disconnect", p,
                    IF p \in DOMAIN clients THEN clients[p].room ELSE UNDEFINED,
                    NULL, NULL, NULL)
    /\ thrown' = NULL
    /\ UNCHANGED <<now, pipeVars, managerVars>>

\* The 'disconnect' event: socket.io has already taken the socket out of
\* every adapter channel when the handler runs. last keeps the room the
\* handler read from the client record, UNDEFINED when it found no record.
handleDisconnect(p) ==
    /\ phase[p] # "new"
    /\ phase' = [phase EXCEPT ![p] = "closed"]
    /\ sio' = [sio EXCEPT ![p] = {}]
    /\ IF p \in DOMAIN clients
       THEN LET client == clients[p]
            IN  /\ rooms' = IF Truthy(client.room)
                            THEN removeFromRoom(rooms, client.room, p)
                            ELSE rooms
                /\ outbox' = IF Truthy(client.room)
                             THEN SocketToEmit(p, client.room, sio',
                                      Msg(NULL, "peer-left", p, NULL, NULL, NULL, NULL, {}))
                             ELSE {}
                /\ clients' = [q \in DOMAIN clients \ {p} |-> clients[q]]
       ELSE /\ outbox' = {}
            /\ UNCHANGED <<clients, rooms>>
    /\ last' = Last("disconnect", p,
                    IF p \in DOMAIN clients THEN clients[p].room ELSE UNDEFINED,
                    NULL, NULL, NULL)
    /\ thrown' = NULL
    /\ UNCHANGED <<now, pipeVars, managerVars>>

\* The wall clock advances between handlers.
Tick ==
    /\ now < MaxNow
    /\ now' = now + 1
    /\ UNCHANGED <<brokerVars, pipeVars, managerVars>>

(* ---------------------------------------------------------------------- *)
(* Bounds of the pipeline model                                            *)
(* ---------------------------------------------------------------------- *)

\* Number of detection requests a run may make.
MaxFrames == 5

\* Largest number of detection requests in a run in which the clock moves.
MaxPipeFrames == 4

\* Largest admission bound explored. The constructor sets this.maxQueueSize
\* to 10; the field is the only place the bound lives, and the model runs the
\* same code with the bounds 1 .. MaxQueueSize.
MaxQueueSize == 2

\* Transports of a detection request: POST /api/detect and 'detect-frame'.
\* The two handlers run the same statements and differ in how they reply;
\* the clients of one run all use the same transport.
Transports == {"http", "ws"}

\* Largest number of bandwidth samples, and of system samples, a run records.
MaxSamples == 1

\* Largest number of frames the collector holds between two resets when it
\* is driven on its own.
MaxRecords == 2

\* Detection lists of the results recorded when the collector is driven on
\* its own: none, or both mock detections.
RecordedLists == {{}, {"person", "phone"}}

\* Bandwidth readings (kbps) and system readings (CPU seconds, heap MB).
BandwidthSamples == {500}

CpuSamples == {2}

MemorySamples == {40}

\* Series handed to calculatePercentile when it is called on its own: every
\* series of 1 .. MaxSeriesLen of the SeriesValues, the five latencies
\* 10 .. 50 out of order, and 25 .. 1 counted down.
MaxSeriesLen == 2

SeriesValues == {10, 20, 30}

SeriesInputs ==
    UNION {[1..n -> SeriesValues] : n \in 1..MaxSeriesLen}
    \cup {<<50, 10, 40, 20, 30>>, [i \in 1..25 |-> 26 - i]}

\* Percentiles handed to calculatePercentile when it is called on its own.
Percentiles == 1..100

\* The captureTs values a client may send at time t: the client stamps the
\* frame in the millisecond in which the server receives it.
captureTimes(t) == {t}

(* ---------------------------------------------------------------------- *)
(* MetricsCollector                                                        *)
(* ---------------------------------------------------------------------- *)

maxFrameHistory == 1000

metricsWindow == 30000

\* The length above which cleanupOldMetrics cuts a latency array, and the
\* number of newest entries it keeps.
latencyCap == 1000

latencyKeep == 500

\* values.slice(-n)
sliceLast(values, n) ==
    IF Len(values) <= n THEN values
    ELSE SubSeq(values, Len(values) - n + 1, Len(values))

\* cleanupOldMetrics, latency part: an array longer than 1000 keeps its last 500.
cleanupLatencies(lat) ==
    [key \in DOMAIN lat |->
        IF Len(lat[key]) > latencyCap THEN sliceLast(lat[key], latencyKeep) ELSE lat[key]]

\* cleanupOldMetrics with the comparison of the frame filter turned round.
cleanupFrames_KeepOld(fr, t) ==
    LET cutoffTime == t - metricsWindow
        old(frame) == frame.timestamp < cutoffTime
    IN  SelectSeq(fr, old)

\* cleanupOldMetrics, frame part: keep the frames newer than the cutoff.
cleanupFrames(fr, t) ==
    LET cutoffTime == t - metricsWindow
        recent(frame) == frame.timestamp > cutoffTime
    IN  SelectSeq(fr, recent)

\* No getMetrics result: the last call returned something else.
NoSnapshot == [taken |-> FALSE]

\* No direct call of a helper yet.
NoCall == [op |-> "none"]

RECURSIVE Sum(_)
Sum(values) == IF values = << >> THEN 0 ELSE Head(values) + Sum(Tail(values))

RECURSIVE Insert(_, _)
Insert(sorted, v) ==
    IF sorted = << >> THEN <<v>>
    ELSE IF v < Head(sorted) THEN <<v>> \o sorted
    ELSE <<Head(sorted)>> \o Insert(Tail(sorted), v)

\* [...values].sort((a, b) => a - b): a sorted copy, values itself untouched.
RECURSIVE SortAscending(_)
SortAscending(values) ==
    IF values = << >> THEN << >>
    ELSE Insert(SortAscending(Tail(values)), Head(values))

\* Math.min(...values) and Math.max(...values); of no arguments they are
\* Infinity and -Infinity.
MathMin(values) ==
    IF values = << >> THEN PosInfinity ELSE JSNum(SortAscending(values)[1])

MathMax(values) ==
    IF values = << >> THEN NegInfinity
    ELSE JSNum(SortAscending(values)[Len(values)])

\* IEEE 754 doubles, as far as calculatePercentile needs them. A positive
\* double is [mant, exp]: mant is a sequence of at most 53 bits, most
\* significant first and starting with 1, and the value is mant * 2^exp.
\* Every operation rounds to nearest, ties to even. Long numbers are handled
\* bit by bit or in chunks of 13 bits, so that no intermediate value leaves
\* the 32-bit integers.
RECURSIVE Pow2(_)
Pow2(k) == IF k = 0 THEN 1 ELSE 2 * Pow2(k - 1)

\* The number of bits of v: the least L with v < 2^L.
RECURSIVE BitLength(_)
BitLength(v) == IF v = 0 THEN 0 ELSE 1 + BitLength(v \div 2)

\* A double is held as [digits, exp]: its 53-bit significand in five
\* digits of 13 bits, least significant first (the fifth digit is the leading
\* 1), and the power of two that scales it.
DigitBase == 8192

\* digit i of digits, and 0 beyond its end.
DigitAt(digits, i) == IF i <= Len(digits) THEN digits[i] ELSE 0

\* digits + 1; a carry out of the last digit stays in the last digit.
RECURSIVE AddOne(_)
AddOne(digits) ==
    IF Len(digits) = 1 THEN <<digits[1] + 1>>
    ELSE IF Head(digits) = DigitBase - 1 THEN <<0>> \o AddOne(Tail(digits))
    ELSE <<Head(digits) + 1>> \o Tail(digits)

\* The double of a 53-bit significand and what lies behind it: guard is the
\* first bit behind, sticky says that a later bit is set. Ties go to the even
\* significand; a significand that rounds up to 2^53 becomes 2^52.
RoundToDouble(digits, guard, sticky, exp) ==
    IF guard = 1 /\ (sticky \/ digits[1] % 2 = 1)
    THEN LET up == AddOne(digits)
         IN  IF up[5] = 2 THEN [digits |-> <<0, 0, 0, 0, 1>>, exp |-> exp + 1]
             ELSE [digits |-> up, exp |-> exp]
    ELSE [digits |-> digits, exp |-> exp]

\* The least k with p * 2^k >= 100, for p > 0.
RECURSIVE ShiftsToReach(_)
ShiftsToReach(p) == IF p >= 100 THEN 0 ELSE 1 + ShiftsToReach(2 * p)

\* Long division by 100: count further digits of the quotient behind the
\* ones in acc, and the remainder.
RECURSIVE DivideDigits(_, _, _)
DivideDigits(r, count, acc) ==
    IF count = 0 THEN [digits |-> acc, rem |-> r]
    ELSE DivideDigits((r * DigitBase) % 100, count - 1,
                      <<(r * DigitBase) \div 100>> \o acc)

\* The double of a quotient by 100 and its remainder.
RoundQuotient(q, exp) ==
    RoundToDouble(q.digits, IF 2 * q.rem >= 100 THEN 1 ELSE 0,
                  2 * q.rem # 100 /\ q.rem # 0, exp)

\* percentile / 100 in doubles, for an integer 0 < percentile < 200. With
\* a = percentile * 2^k in 100 .. 199 the quotient is 2^-k times a / 100,
\* a number in 1 .. 2, whose first 53 bits are floor(a * 2^52 / 100).
PercentAsDouble(percentile) ==
    RoundQuotient(
        DivideDigits((percentile * Pow2(ShiftsToReach(percentile))) % 100, 4,
                     <<(percentile * Pow2(ShiftsToReach(percentile))) \div 100>>),
        -ShiftsToReach(percentile) - 52)

\* digits * n, digit by digit with the carry handed on; the last digit takes
\* what is left.
RECURSIVE TimesDigits(_, _, _)
TimesDigits(digits, n, carry) ==
    IF Len(digits) = 1 THEN <<digits[1] * n + carry>>
    ELSE <<(Head(digits) * n + carry) % DigitBase>>
         \o TimesDigits(Tail(digits), n, (Head(digits) * n + carry) \div DigitBase)

\* Bit j of the number digits, counted from 0 at the least significant bit.
BitAt(digits, j) == (DigitAt(digits, (j \div 13) + 1) \div Pow2(j % 13)) % 2

\* Whether a bit below bit j of the number digits is set, for j <= 26.
AnyBitBelow(digits, j) ==
    IF j <= 13 THEN digits[1] % Pow2(j) # 0
    ELSE digits[1] # 0 \/ digits[2] % Pow2(j - 13) # 0

\* floor(digits / 2^s) in five digits, for a number below 2^(53 + s).
ShiftRight(digits, s) ==
    [i \in 1..5 |->
        (DigitAt(digits, i + (s \div 13)) \div Pow2(s % 13))
        + (DigitAt(digits, i + (s \div 13) + 1) % Pow2(s % 13)) * Pow2(13 - (s % 13))]

\* The double of the exact product held in product, whose last digit may
\* have outgrown 13 bits: s bits are shifted out and rounded away.
RoundProduct(product, s, exp) ==
    IF s = 0 THEN [digits |-> product, exp |-> exp]
    ELSE RoundToDouble(ShiftRight(SubSeq(product, 1, 4)
                                  \o <<product[5] % DigitBase, product[5] \div DigitBase>>, s),
                       BitAt(product, s - 1), AnyBitBelow(product, s - 1), exp + s)

\* The number of bits by which a product outgrows 53 bits.
Overshoot(product) == BitLength(product[5]) - 1

\* x * n in doubles, for a double x and an integer 0 < n < 2^17.
TimesProduct(product, exp) == RoundProduct(product, Overshoot(product), exp)

TimesDouble(x, n) == TimesProduct(TimesDigits(x.digits, n, 0), x.exp)

\* floor(hi / 2^g) and one more when a bit is shifted out or rest is set.
CeilOfShift(hi, g, rest) ==
    IF g >= 27 THEN 1
    ELSE (hi \div Pow2(g)) + (IF rest \/ hi % Pow2(g) # 0 THEN 1 ELSE 0)

\* Math.ceil(x) for a double 0 < x < 2^26.
CeilOfDouble(x) ==
    CeilOfShift(x.digits[5] * Pow2(26) + x.digits[4] * DigitBase + x.digits[3],
                -x.exp - 26, x.digits[1] # 0 \/ x.digits[2] # 0)

\* Math.ceil((percentile / 100) * n), for integers 0 < percentile < 200 and
\* 0 < n < 2^17.
CeilOfProduct(percentile, n) ==
    CeilOfDouble(TimesDouble(PercentAsDouble(percentile), n))

\* calculatePercentile(values, percentile)
calculatePercentile(values, percentile) ==
    IF Len(values) = 0 THEN JSNum(0)
    ELSE LET sorted == SortAscending(values)
             index == CeilOfProduct(percentile, Len(sorted)) - 1
         IN  JSNum(sorted[(IF index > 0 THEN index ELSE 0) + 1])

\* The arguments of a call of calculatePercentile that is about to be made.
PercentileCall(values, percentile) ==
    [op |-> "arguments", values |-> values, percentile |-> percentile]

\* A call of calculatePercentile on its own, with the arguments held in
\* call. The function sorts a copy, so the caller's array is afterwards what
\* it was.
callPercentile ==
    /\ call.op = "arguments"
    /\ call' = [op |-> "calculatePercentile", values |-> call.values,
                percentile |-> call.percentile,
                returned |-> calculatePercentile(call.values, call.percentile),
                valuesAfter |-> call.values]
    /\ UNCHANGED <<frames, totalFrames, processedFrames, droppedFrames, latencies,
                   lastResetTime, bandwidth, systemMetrics, snapshot>>
    /\ UNCHANGED <<serviceVars, handlerVars, brokerVars, managerVars, now>>

\* calculateAverage(values)
calculateAverage(values) ==
    IF Len(values) = 0 THEN JSNum(0) ELSE Divide(Sum(values), Len(values))

\* values.length > 0 ? values[values.length - 1] : 0
currentOf(values) ==
    IF Len(values) > 0 THEN JSNum(values[Len(values)]) ELSE JSNum(0)

\* entries.map(entry => entry.value)
valuesOf(entries) == [i \in 1..Len(entries) |-> entries[i].value]

\* The current / average / max block of a bandwidth or system series.
seriesStats(values) ==
    [current |-> currentOf(values),
     average |-> calculateAverage(values),
     max |-> OrZero(MathMax(values))]

\* The object getMetrics() returns at time t. duration is (t -
\* lastResetTime) / 1000 seconds and fps is processedFrames / duration.
getMetricsResult(t) ==
    [taken |-> TRUE,
     timestamp |-> t,
     duration |-> Divide(t - lastResetTime, 1000),
     frames |-> [total |-> totalFrames,
                 processed |-> processedFrames,
                 dropped |-> droppedFrames,
                 dropRate |-> IF totalFrames > 0
                              THEN Divide(droppedFrames * 100, totalFrames)
                              ELSE JSNum(0),
                 fps |-> Divide(processedFrames * 1000, t - lastResetTime)],
     latency |->
        [endToEnd |-> [median |-> calculatePercentile(latencies.endToEnd, 50),
                       p95 |-> calculatePercentile(latencies.endToEnd, 95),
                       p99 |-> calculatePercentile(latencies.endToEnd, 99),
                       average |-> calculateAverage(latencies.endToEnd),
                       min |-> OrZero(MathMin(latencies.endToEnd)),
                       max |-> OrZero(MathMax(latencies.endToEnd))],
         network |-> [median |-> calculatePercentile(latencies.network, 50),
                      p95 |-> calculatePercentile(latencies.network, 95),
                      average |-> calculateAverage(latencies.network)],
         inference |-> [median |-> calculatePercentile(latencies.inference, 50),
                        p95 |-> calculatePercentile(latencies.inference, 95),
                        average |-> calculateAverage(latencies.inference)]],
     bandwidth |-> [uplink |-> seriesStats(valuesOf(bandwidth.uplink)),
                    downlink |-> seriesStats(valuesOf(bandwidth.downlink))],
     system |-> [cpu |-> seriesStats(systemMetrics.cpuUsage),
                 memory |-> seriesStats(systemMetrics.memoryUsage)],
     recentFrames |-> sliceLast(frames, 10),
     sampleCount |-> [frames |-> Len(frames),
                      latencies |-> Len(latencies.endToEnd),
                      bandwidth |-> Len(bandwidth.uplink)]]

\* GET /api/metrics and the 'get-metrics' event: getMetrics() is sent back.
getMetrics ==
    /\ initialized
    /\ snapshot' = getMetricsResult(now)
    /\ call' = NoCall
    /\ UNCHANGED <<frames, totalFrames, processedFrames, droppedFrames, latencies,
                   lastResetTime, bandwidth, systemMetrics>>
    /\ UNCHANGED <<serviceVars, handlerVars, brokerVars, managerVars, now>>

\* reset that leaves the dropped counter as it is.
reset_KeepDropped ==
    /\ initialized
    /\ frames' = << >>
    /\ totalFrames' = 0
    /\ processedFrames' = 0
    /\ lastResetTime' = now
    /\ latencies' = [key \in DOMAIN latencies |-> << >>]
    /\ bandwidth' = [uplink |-> << >>, downlink |-> << >>]
    /\ snapshot' = NoSnapshot
    /\ call' = [op |-> "reset", at |-> now]
    /\ UNCHANGED <<droppedFrames, systemMetrics>>
    /\ UNCHANGED <<serviceVars, handlerVars, brokerVars, managerVars, now>>

\* POST /api/metrics/reset: reset(). The system series are not reset.
reset ==
    /\ initialized
    /\ frames' = << >>
    /\ totalFrames' = 0
    /\ processedFrames' = 0
    /\ droppedFrames' = 0
    /\ lastResetTime' = now
    /\ latencies' = [key \in DOMAIN latencies |-> << >>]
    /\ bandwidth' = [uplink |-> << >>, downlink |-> << >>]
    /\ snapshot' = NoSnapshot
    /\ call' = [op |-> "reset", at |-> now]
    /\ UNCHANGED systemMetrics
    /\ UNCHANGED <<serviceVars, handlerVars, brokerVars, managerVars, now>>

\* cleanupBandwidthData: keep the entries newer than the cutoff.
cleanupBandwidthData(entries, t) ==
    LET cutoffTime == t - metricsWindow
        recent(entry) == entry.timestamp > cutoffTime
    IN  SelectSeq(entries, recent)

\* recordBandwidth(uplink, downlink), a method of the collector that the
\* server itself never calls.
recordBandwidth(uplink, downlink) ==
    /\ Len(bandwidth.uplink) < MaxSamples
    /\ bandwidth' =
          [uplink |-> cleanupBandwidthData(
                          Append(bandwidth.uplink,
                                 [value |-> uplink, timestamp |-> now]), now),
           downlink |-> cleanupBandwidthData(
                          Append(bandwidth.downlink,
                                 [value |-> downlink, timestamp |-> now]), now)]
    /\ snapshot' = NoSnapshot
    /\ call' = NoCall
    /\ UNCHANGED <<frames, totalFrames, processedFrames, droppedFrames, latencies,
                   lastResetTime, systemMetrics>>
    /\ UNCHANGED <<serviceVars, handlerVars, brokerVars, managerVars, now>>

\* values.slice(keepIndex) for the 0-based keepIndex of cleanupSystemMetrics.
sliceFrom(values, keepIndex) == SubSeq(values, keepIndex + 1, Len(values))

\* cleanupSystemMetrics: the index of the first sample newer than the
\* cutoff, 0 when there is none.
keepIndexOf(timestamps, t) ==
    LET cutoffTime == t - metricsWindow
        newer == {i \in 1..Len(timestamps) : timestamps[i] > cutoffTime}
    IN  IF newer = {} THEN 0
        ELSE (CHOOSE i \in newer : \A j \in newer : i <= j) - 1

\* The 5 s timer of startSystemMonitoring: collectSystemMetrics().
collectSystemMetrics(cpuPercent, memoryUsageMB) ==
    /\ Len(systemMetrics.timestamp) < MaxSamples
    /\ LET cpu1 == Append(systemMetrics.cpuUsage, cpuPercent)
           mem1 == Append(systemMetrics.memoryUsage, memoryUsageMB)
           ts1 == Append(systemMetrics.timestamp, now)
           keepIndex == keepIndexOf(ts1, now)
       IN  systemMetrics' = [cpuUsage |-> sliceFrom(cpu1, keepIndex),
                             memoryUsage |-> sliceFrom(mem1, keepIndex),
                             timestamp |-> sliceFrom(ts1, keepIndex)]
    /\ snapshot' = NoSnapshot
    /\ call' = NoCall
    /\ UNCHANGED <<frames, totalFrames, processedFrames, droppedFrames, latencies,
                   lastResetTime, bandwidth>>
    /\ UNCHANGED <<serviceVars, handlerVars, brokerVars, managerVars, now>>

\* recordFrame(frameData) at time Date.now() = now.
recordFrame(frame_id, capture_ts, recv_ts, inference_ts, detections) ==
    LET networkLatency == recv_ts - capture_ts
        inferenceLatency == inference_ts - recv_ts
        endToEndLatency == now - capture_ts
        frame == [frameId |-> frame_id, captureTs |-> capture_ts, recvTs |-> recv_ts,
                  inferenceTs |-> inference_ts, overlayTs |-> now,
                  networkLatency |-> networkLatency,
                  inferenceLatency |-> inferenceLatency,
                  endToEndLatency |-> endToEndLatency,
                  detectionCount |-> Cardinality(detections), timestamp |-> now]
        pushed == Append(frames, frame)
        capped == IF Len(pushed) > maxFrameHistory THEN Tail(pushed) ELSE pushed
        lat1 == [latencies EXCEPT !.endToEnd = Append(@, endToEndLatency),
                                  !.network = Append(@, networkLatency),
                                  !.inference = Append(@, inferenceLatency)]
    IN  /\ totalFrames' = totalFrames + 1
        /\ processedFrames' = processedFrames + 1
        /\ latencies' = cleanupLatencies(lat1)
        /\ frames' = cleanupFrames(capped, now)
        /\ snapshot' = NoSnapshot
        /\ call' = NoCall
        /\ UNCHANGED <<droppedFrames, lastResetTime, bandwidth, systemMetrics>>

\* recordDroppedFrame that counts the frame as processed too.
recordDroppedFrame_CountsProcessed ==
    /\ initialized
    /\ totalFrames < MaxRecords
    /\ droppedFrames' = droppedFrames + 1
    /\ totalFrames' = totalFrames + 1
    /\ processedFrames' = processedFrames + 1
    /\ snapshot' = NoSnapshot
    /\ call' = [op |-> "recordDroppedFrame"]
    /\ UNCHANGED <<frames, latencies, lastResetTime, bandwidth, systemMetrics>>
    /\ UNCHANGED <<serviceVars, handlerVars, brokerVars, managerVars, now>>

\* recordDroppedFrame(), called on the collector of a running server.
recordDroppedFrame ==
    /\ initialized
    /\ totalFrames < MaxRecords
    /\ droppedFrames' = droppedFrames + 1
    /\ totalFrames' = totalFrames + 1
    /\ snapshot' = NoSnapshot
    /\ call' = [op |-> "recordDroppedFrame"]
    /\ UNCHANGED <<frames, processedFrames, latencies, lastResetTime, bandwidth,
                   systemMetrics>>
    /\ UNCHANGED <<serviceVars, handlerVars, brokerVars, managerVars, now>>

\* this.metricsCollector.recordFrame(result) as the detection handlers call
\* it: the handler stamped recv_ts on arrival and inference_ts just before
\* the call, and the frame id counts the results.
recordFrameCall(capture_ts, recv_ts, detections) ==
    /\ initialized
    /\ totalFrames < MaxRecords
    /\ recordFrame(processedFrames + 1, capture_ts, recv_ts, now, detections)
    /\ UNCHANGED <<serviceVars, handlerVars, brokerVars, managerVars, now>>

(* ---------------------------------------------------------------------- *)
(* ObjectDetectionService                                                  *)
(* ---------------------------------------------------------------------- *)

\* getMockDetections(): the two mock detections, each kept or not at random.
MockDetections == {"person", "phone"}

MockLists == SUBSET MockDetections

\* queueIsFull with > for >=.
queueIsFull_OffByOne(q) == Len(q) > maxQueueSize

\* detectServerSide, the admission test:
\* this.processingQueue.length >= this.maxQueueSize
queueIsFull(q) == Len(q) >= maxQueueSize

\* admit that drops the newest waiting frame instead of the oldest.
admit_DropNewest(q, f) ==
    IF Len(q) >= maxQueueSize
    THEN [queue |-> Append(SubSeq(q, 1, Len(q) - 1), f), dropped |-> {q[Len(q)]}]
    ELSE [queue |-> Append(q, f), dropped |-> {}]

\* detectServerSide, admission of frame f to queue q: when the queue is full
\* its oldest frame is shifted out, then f is pushed. The result is the new
\* queue and the frames that were shifted out.
admit(q, f) ==
    IF queueIsFull(q)
    THEN [queue |-> Append(Tail(q), f), dropped |-> {Head(q)}]
    ELSE [queue |-> Append(q, f), dropped |-> {}]

\* startsDrain without the test of isProcessing.
startsDrain_Unguarded(busy, q) == Len(q) > 0

\* The entry test of processQueue with length <= 1 for length === 0.
startsDrain_NeedsTwo(busy, q) == ~busy /\ Len(q) > 1

\* processQueue, entry guard: a drain loop starts only when none is running
\* and a frame is waiting.
startsDrain(busy, q) == ~busy /\ Len(q) > 0

\* shift that takes the newest frame (pop) instead of the oldest.
shift_Newest(q) == [frame |-> q[Len(q)], rest |-> SubSeq(q, 1, Len(q) - 1)]

\* processQueue, this.processingQueue.shift(): the frame the loop takes next
\* and the frames it leaves waiting.
shift(q) == [frame |-> Head(q), rest |-> Tail(q)]

\* runInference whose catch clause throws the error on.
runInference_Rethrow(hasSession, failed, mock) ==
    IF ~hasSession \/ failed
    THEN [resolved |-> FALSE, detections |-> {}]
    ELSE [resolved |-> TRUE, detections |-> mock]

\* runInference(imageData): without a session it throws. With one, the
\* results of session.run go through postprocessResults and an error of
\* session.run (failed) through the catch clause; both give mock detections.
runInference(hasSession, failed, mock) ==
    IF ~hasSession
    THEN [resolved |-> FALSE, detections |-> {}]
    ELSE [resolved |-> TRUE, detections |-> mock]

Event(op, frame, via, reply, detections, failed, dropped, depth) ==
    [op |-> op, frame |-> frame, via |-> via, reply |-> reply,
     detections |-> detections, failed |-> failed, dropped |-> dropped,
     depth |-> depth]

without(fn, ks) == [k \in DOMAIN fn \ ks |-> fn[k]]

with(fn, k, v) == [x \in DOMAIN fn \cup {k} |-> IF x = k THEN v ELSE fn[x]]

\* drain without the finally clause: isProcessing is never cleared.
drain_NoFinally(q, act, out, pend) ==
    IF Len(q) = 0
    THEN /\ processingQueue' = q
         /\ isProcessing' = TRUE
         /\ active' = act
         /\ dispatched' = dispatched
         /\ outcome' = out
         /\ pending' = pend
    ELSE IF session
    THEN /\ processingQueue' = shift(q).rest
         /\ isProcessing' = TRUE
         /\ active' = act \cup {shift(q).frame}
         /\ dispatched' = Append(dispatched, shift(q).frame)
         /\ outcome' = out
         /\ pending' = pend
    ELSE LET all == {q[i] : i \in 1..Len(q)}
         IN  /\ processingQueue' = << >>
             /\ isProcessing' = FALSE
             /\ active' = act
             /\ dispatched' = dispatched \o q
             /\ outcome' = [f \in DOMAIN out \cup all |->
                               IF f \in all THEN "error" ELSE out[f]]
             /\ pending' = without(pend, all)

\* One pass of the while loop of processQueue over queue q, from the loop
\* test to the next await. With a session the oldest frame is shifted and its
\* runInference call stays pending. Without one, runInference throws at once
\* for every frame, each is rejected in turn, the handler of each sends its
\* error, and the loop runs the queue empty. An empty queue ends the loop and
\* the finally clause clears isProcessing.
drain(q, act, out, pend) ==
    IF Len(q) = 0
    THEN /\ processingQueue' = q
         /\ isProcessing' = FALSE
         /\ active' = act
         /\ dispatched' = dispatched
         /\ outcome' = out
         /\ pending' = pend
    ELSE IF session
    THEN /\ processingQueue' = shift(q).rest
         /\ isProcessing' = TRUE
         /\ active' = act \cup {shift(q).frame}
         /\ dispatched' = Append(dispatched, shift(q).frame)
         /\ outcome' = out
         /\ pending' = pend
    ELSE LET all == {q[i] : i \in 1..Len(q)}
         IN  /\ processingQueue' = << >>
             /\ isProcessing' = FALSE
             /\ active' = act
             /\ dispatched' = dispatched \o q
             /\ outcome' = [f \in DOMAIN out \cup all |->
                               IF f \in all THEN "error" ELSE out[f]]
             /\ pending' = without(pend, all)

\* initialize(), awaited by start() before server.listen: in server mode the
\* model either loads (the session is created) or initializeServerMode fails
\* and falls back to wasm mode.
initialize(loaded) ==
    /\ ~initialized
    /\ IF mode = "server"
       THEN IF loaded
            THEN session' = TRUE /\ mode' = mode
            ELSE session' = session /\ mode' = "wasm"
       ELSE UNCHANGED <<session, mode>>
    /\ initialized' = TRUE
    /\ ev' = Event("initialize", 0, NULL, "none", {}, FALSE, {}, 0)
    /\ UNCHANGED <<maxQueueSize, processingQueue, isProcessing, active,
                   transport, nextFrame, pending, outcome, dispatched, evicted,
                   metricsVars, brokerVars, managerVars, now>>

\* detectRequest that rejects the request of a frame it shifts out of the queue.
detectRequest_RejectEvicted(captureTs, mock) ==
    LET f == nextFrame
        recvTs == now
    IN  /\ initialized
        /\ nextFrame <= MaxFrames
        /\ nextFrame' = nextFrame + 1
        /\ IF mode = "server"
           THEN LET admitted == admit(processingQueue, f)
                    q1 == admitted.queue
                    pend1 == without(with(pending, f,
                                         [captureTs |-> captureTs, recvTs |-> recvTs]),
                                    admitted.dropped)
                    out1 == [g \in DOMAIN outcome \cup admitted.dropped |->
                                IF g \in admitted.dropped THEN "error" ELSE outcome[g]]
                IN  /\ evicted' = evicted \cup admitted.dropped
                    /\ IF startsDrain(isProcessing, q1)
                       THEN drain(q1, active, out1, pend1)
                       ELSE /\ processingQueue' = q1
                            /\ pending' = pend1
                            /\ outcome' = out1
                            /\ UNCHANGED <<isProcessing, active, dispatched>>
                    /\ ev' = Event("request", f, transport, "none", {}, FALSE,
                                   admitted.dropped, Len(processingQueue))
                    /\ UNCHANGED metricsVars
           ELSE /\ recordFrame(f, captureTs, recvTs, now, mock)
                /\ outcome' = with(outcome, f, "result")
                /\ ev' = Event("request", f, transport, "result", mock, FALSE, {}, 0)
                /\ UNCHANGED <<processingQueue, isProcessing, active, pending,
                               dispatched, evicted>>
        /\ UNCHANGED <<mode, session, initialized, maxQueueSize, transport,
                       brokerVars, managerVars, now>>

\* A detection request arrives: the handler of POST /api/detect or of
\* 'detect-frame' runs up to its await of detectObjects. In server mode
\* detectServerSide admits the frame and calls processQueue; in wasm mode
\* detectObjects returns mock detections and the handler records and replies
\* at once. The server listens only once initialize() has returned.
detectRequest(captureTs, mock) ==
    LET f == nextFrame
        recvTs == now
    IN  /\ initialized
        /\ nextFrame <= MaxFrames
        /\ nextFrame' = nextFrame + 1
        /\ IF mode = "server"
           THEN LET admitted == admit(processingQueue, f)
                    q1 == admitted.queue
                    pend1 == with(pending, f,
                                 [captureTs |-> captureTs, recvTs |-> recvTs])
                IN  /\ evicted' = evicted \cup admitted.dropped
                    /\ IF startsDrain(isProcessing, q1)
                       THEN drain(q1, active, outcome, pend1)
                       ELSE /\ processingQueue' = q1
                            /\ pending' = pend1
                            /\ UNCHANGED <<isProcessing, active, dispatched, outcome>>
                    /\ ev' = Event("request", f, transport, "none", {}, FALSE,
                                   admitted.dropped, Len(processingQueue))
                    /\ UNCHANGED metricsVars
           ELSE /\ recordFrame(f, captureTs, recvTs, now, mock)
                /\ outcome' = with(outcome, f, "result")
                /\ ev' = Event("request", f, transport, "result", mock, FALSE, {}, 0)
                /\ UNCHANGED <<processingQueue, isProcessing, active, pending,
                               dispatched, evicted>>
        /\ UNCHANGED <<mode, session, initialized, maxQueueSize, transport,
                       brokerVars, managerVars, now>>

\* inferenceSettles in which an error of session.run leaves the while loop:
\* the request is rejected, the finally clause clears isProcessing and the
\* frames behind stay in the queue.
inferenceSettles_StallOnFailure(f, failed, mock) ==
    LET res == runInference(session, failed, mock)
        reply == IF res.resolved /\ ~failed THEN "result" ELSE "error"
    IN  /\ f \in active
        /\ IF failed
           THEN /\ processingQueue' = processingQueue
                /\ isProcessing' = FALSE
                /\ active' = active \ {f}
                /\ dispatched' = dispatched
                /\ outcome' = with(outcome, f, reply)
                /\ pending' = without(pending, {f})
                /\ UNCHANGED metricsVars
           ELSE /\ drain(processingQueue, active \ {f}, with(outcome, f, reply),
                         without(pending, {f}))
                /\ IF res.resolved
                   THEN recordFrame(f, pending[f].captureTs, pending[f].recvTs, now,
                                    res.detections)
                   ELSE UNCHANGED metricsVars
        /\ ev' = Event("settle", f, transport, reply, res.detections, failed,
                       {}, Len(processingQueue))
        /\ UNCHANGED <<mode, session, initialized, maxQueueSize, transport,
                       nextFrame, evicted, brokerVars, managerVars, now>>

\* inferenceSettles that leaves the settled call among the pending ones.
inferenceSettles_Resettle(f, failed, mock) ==
    LET res == runInference(session, failed, mock)
        reply == IF res.resolved THEN "result" ELSE "error"
    IN  /\ f \in active
        /\ drain(processingQueue, active, with(outcome, f, reply), pending)
        /\ IF res.resolved
           THEN recordFrame(f, pending[f].captureTs, pending[f].recvTs, now,
                            res.detections)
           ELSE UNCHANGED metricsVars
        /\ ev' = Event("settle", f, transport, reply, res.detections, failed,
                       {}, Len(processingQueue))
        /\ UNCHANGED <<mode, session, initialized, maxQueueSize, transport,
                       nextFrame, evicted, brokerVars, managerVars, now>>

\* The runInference call of frame f settles, session.run having returned or
\* thrown (failed). The drain loop resolves or rejects the request and takes
\* the next frame if there is one; then the handler of f resumes: on a result
\* it stamps inference_ts, records the frame and replies, on a rejection its
\* catch clause sends the error (HTTP 500 or 'detection-error').
inferenceSettles(f, failed, mock) ==
    LET res == runInference(session, failed, mock)
        reply == IF res.resolved THEN "result" ELSE "error"
    IN  /\ f \in active
        /\ drain(processingQueue, active \ {f}, with(outcome, f, reply),
                 without(pending, {f}))
        /\ IF res.resolved
           THEN recordFrame(f, pending[f].captureTs, pending[f].recvTs, now,
                            res.detections)
           ELSE UNCHANGED metricsVars
        /\ ev' = Event("settle", f, transport, reply, res.detections, failed,
                       {}, Len(processingQueue))
        /\ UNCHANGED <<mode, session, initialized, maxQueueSize, transport,
                       nextFrame, evicted, brokerVars, managerVars, now>>

(* ---------------------------------------------------------------------- *)
(* DetectionManager (desktop page)                                         *)
(* ---------------------------------------------------------------------- *)

\* Number of detectWASM calls a run may make.
MaxClientFrames == 5

\* this.maxQueueSize of the DetectionManager.
dmMaxQueueSize == 5

\* The manager as constructed.
InitManagerVars ==
    /\ dmInitialized = FALSE
    /\ dmSession = FALSE
    /\ dmIsProcessing = FALSE
    /\ dmProcessingQueue = << >>
    /\ dmActive = {}
    /\ dmNextFrame = 1
    /\ dmReturned = << >>
    /\ dmEvicted = {}

\* initialize() in wasm mode: initializeWASM creates the session (loaded), or
\* the model fails to load and the manager falls back to mock detection with
\* this.session left null.
initializeWASM(loaded) ==
    /\ ~dmInitialized
    /\ dmInitialized' = TRUE
    /\ dmSession' = loaded
    /\ UNCHANGED <<dmIsProcessing, dmProcessingQueue, dmActive, dmNextFrame,
                   dmReturned, dmEvicted>>
    /\ UNCHANGED <<brokerVars, pipeVars, now>>

\* The admission of detectWASM: a full queue loses its oldest frame, then the
\* new frame is pushed.
dmAdmit(q, f) ==
    IF Len(q) >= dmMaxQueueSize
    THEN [queue |-> Append(Tail(q), f), dropped |-> {Head(q)}]
    ELSE [queue |-> Append(q, f), dropped |-> {}]

\* One pass of the while loop of the manager's processQueue over queue q,
\* from the loop test to the next await: the oldest frame is shifted and its
\* runWASMInference call stays pending, or the queue is empty and the finally
\* clause clears isProcessing.
dmDrain(q, act) ==
    IF Len(q) = 0
    THEN /\ dmProcessingQueue' = q
         /\ dmIsProcessing' = FALSE
         /\ dmActive' = act
    ELSE /\ dmProcessingQueue' = Tail(q)
         /\ dmIsProcessing' = TRUE
         /\ dmActive' = act \cup {Head(q)}

\* The entry test of the manager's processQueue: a loop is started when none
\* is running and a frame waits.
dmStartsDrain(busy, q) == ~busy /\ Len(q) > 0

\* detectWASM without the isProcessing half of its first test.
detectWASM_NoBusyTest ==
    LET f == dmNextFrame
    IN  /\ dmInitialized
        /\ dmNextFrame <= MaxClientFrames
        /\ dmNextFrame' = dmNextFrame + 1
        /\ IF ~dmSession
           THEN /\ dmReturned' = with(dmReturned, f, "empty")
                /\ UNCHANGED <<dmIsProcessing, dmProcessingQueue, dmActive, dmEvicted>>
           ELSE LET admitted == dmAdmit(dmProcessingQueue, f)
                IN  /\ dmEvicted' = dmEvicted \cup admitted.dropped
                    /\ dmReturned' = dmReturned
                    /\ IF dmStartsDrain(dmIsProcessing, admitted.queue)
                       THEN dmDrain(admitted.queue, dmActive)
                       ELSE /\ dmProcessingQueue' = admitted.queue
                            /\ UNCHANGED <<dmIsProcessing, dmActive>>
        /\ UNCHANGED <<dmInitialized, dmSession>>
        /\ UNCHANGED <<brokerVars, pipeVars, now>>

\* detectWASM(frameData), up to its return or to the await inside
\* processQueue: without a session or with a drain loop running it returns
\* [] at once; otherwise it admits the frame and calls processQueue.
detectWASM ==
    LET f == dmNextFrame
    IN  /\ dmInitialized
        /\ dmNextFrame <= MaxClientFrames
        /\ dmNextFrame' = dmNextFrame + 1
        /\ IF ~dmSession \/ dmIsProcessing
           THEN /\ dmReturned' = with(dmReturned, f, "empty")
                /\ UNCHANGED <<dmIsProcessing, dmProcessingQueue, dmActive, dmEvicted>>
           ELSE LET admitted == dmAdmit(dmProcessingQueue, f)
                IN  /\ dmEvicted' = dmEvicted \cup admitted.dropped
                    /\ dmReturned' = dmReturned
                    /\ IF dmStartsDrain(dmIsProcessing, admitted.queue)
                       THEN dmDrain(admitted.queue, dmActive)
                       ELSE /\ dmProcessingQueue' = admitted.queue
                            /\ UNCHANGED <<dmIsProcessing, dmActive>>
        /\ UNCHANGED <<dmInitialized, dmSession>>
        /\ UNCHANGED <<brokerVars, pipeVars, now>>

\* The runWASMInference call of frame f settles (it returns detections, mock
\* ones when the inference throws): the loop resolves the call of f and takes
\* the next frame or ends.
wasmInferenceSettles(f) ==
    /\ f \in dmActive
    /\ dmReturned' = with(dmReturned, f, "detections")
    /\ dmDrain(dmProcessingQueue, dmActive \ {f})
    /\ UNCHANGED <<dmInitialized, dmSession, dmNextFrame, dmEvicted>>
    /\ UNCHANGED <<brokerVars, pipeVars, now>>

(* ---------------------------------------------------------------------- *)
(* Specifications                                                          *)
(* ---------------------------------------------------------------------- *)

InitBrokerVars ==
    /\ phase = [p \in Peers |-> "new"]
    /\ clients = << >>
    /\ rooms = << >>
    /\ sio = [p \in Peers |-> {}]
    /\ outbox = {}
    /\ last = Last("init", NULL, NULL, NULL, NULL, NULL)
    /\ thrown = NULL

\* The service, the handlers and the collector after their constructors.
InitPipeVars ==
    /\ session = FALSE
    /\ initialized = FALSE
    /\ processingQueue = << >>
    /\ isProcessing = FALSE
    /\ active = {}
    /\ nextFrame = 1
    /\ pending = << >>
    /\ outcome = << >>
    /\ dispatched = << >>
    /\ evicted = {}
    /\ ev = Event("init", 0, NULL, "none", {}, FALSE, {}, 0)
    /\ frames = << >>
    /\ totalFrames = 0
    /\ processedFrames = 0
    /\ droppedFrames = 0
    /\ latencies = [endToEnd |-> << >>, network |-> << >>, inference |-> << >>,
                    overlay |-> << >>]
    /\ lastResetTime = 0
    /\ bandwidth = [uplink |-> << >>, downlink |-> << >>]
    /\ systemMetrics = [cpuUsage |-> << >>, memoryUsage |-> << >>, timestamp |-> << >>]
    /\ snapshot = NoSnapshot

\* The broker on its own: the service stays as constructed by default.
InitBroker ==
    /\ InitBrokerVars
    /\ InitManagerVars
    /\ InitPipeVars
    /\ call = NoCall
    /\ mode = "wasm"
    /\ maxQueueSize = MaxQueueSize
    /\ transport = "ws"
    /\ now = 0

NextBroker ==
    \/ \E p \in Peers : handleConnection(p)
    \/ \E p \in Peers, t \in Types : handleRegister(p, t)
    \/ \E p \in Peers, r \in RoomIds : handleJoinRoom(p, r)
    \/ \E p \in Peers, t \in TargetIds, x \in Offers : handleOffer(p, t, x)
    \/ \E p \in Peers, t \in TargetIds, x \in Answers : handleAnswer(p, t, x)
    \/ \E p \in Peers, t \in TargetIds, x \in Candidates : handleIceCandidate(p, t, x)
    \/ \E p \in Peers, t \in TargetIds, x \in Messages : handleDataChannelMessage(p, t, x)
    \/ \E p \in Peers : handleDisconnect(p)
    \/ Tick

SpecBroker == InitBroker /\ [][NextBroker]_vars

\* The detection pipeline on its own: MODE is "server" or "wasm", and the
\* admission bound is any of 1 .. MaxQueueSize.
InitPipe ==
    /\ InitBrokerVars
    /\ InitManagerVars
    /\ InitPipeVars
    /\ call = NoCall
    /\ mode \in {"server", "wasm"}
    /\ maxQueueSize \in 1..MaxQueueSize
    /\ transport \in Transports
    /\ now = 0

NextPipe ==
    \/ \E loaded \in BOOLEAN : initialize(loaded)
    \/ /\ nextFrame <= MaxPipeFrames
       /\ \E c \in captureTimes(now), mock \in MockLists : detectRequest(c, mock)
    \/ \E f \in 1..MaxFrames, failed \in BOOLEAN, mock \in MockLists :
          inferenceSettles(f, failed, mock)
    \/ Tick

SpecPipe == InitPipe /\ [][NextPipe]_vars

\* The collector on its own, with MODE unset (wasm): results are recorded
\* as the detection handlers record them, snapshots and resets come from the
\* metrics routes, system samples from the timer.
InitMetrics ==
    /\ InitBrokerVars
    /\ InitManagerVars
    /\ InitPipeVars
    /\ call = NoCall
    /\ mode = "wasm"
    /\ maxQueueSize = MaxQueueSize
    /\ transport = "http"
    /\ now = 0

NextMetrics ==
    \/ \E loaded \in BOOLEAN : initialize(loaded)
    \/ \E r \in 0..now : \E c \in captureTimes(r), d \in RecordedLists :
          recordFrameCall(c, r, d)
    \/ recordDroppedFrame
    \/ getMetrics
    \/ reset
    \/ \E u \in BandwidthSamples, d \in BandwidthSamples : recordBandwidth(u, d)
    \/ \E c \in CpuSamples, m \in MemorySamples : collectSystemMetrics(c, m)
    \/ Tick

SpecMetrics == InitMetrics /\ [][NextMetrics]_vars

\* The pipeline under the assumption that every runInference call settles:
\* session.run returns or throws in the end. The clock stands still; the
\* queue and the drain loop never read it.
InitPipeLive ==
    /\ InitPipe
    /\ transport = "ws"

settles ==
    \E f \in 1..MaxFrames, failed \in BOOLEAN, mock \in MockLists :
        inferenceSettles(f, failed, mock)

NextPipeLive ==
    \/ \E loaded \in BOOLEAN : initialize(loaded)
    \/ \E c \in captureTimes(now), mock \in MockLists : detectRequest(c, mock)
    \/ settles

SpecPipeLive == InitPipeLive /\ [][NextPipeLive]_vars /\ WF_vars(settles)

\* The frame record recordFrame stores for a frame captured, received and
\* answered at time t with no detection.
frameAt(frame_id, t) ==
    [frameId |-> frame_id, captureTs |-> t, recvTs |-> t, inferenceTs |-> t,
     overlayTs |-> t, networkLatency |-> 0, inferenceLatency |-> 0,
     endToEndLatency |-> 0, detectionCount |-> 0, timestamp |-> t]

\* The collector of a server that has answered n frames in its first
\* millisecond: n records, n values in each latency array it fills.
InitHistory ==
    /\ InitBrokerVars
    /\ InitManagerVars
    /\ \E n \in (maxFrameHistory - MaxRecords)..(maxFrameHistory - 1) :
          /\ frames = [i \in 1..n |-> frameAt(i, 0)]
          /\ totalFrames = n
          /\ processedFrames = n
          /\ latencies = [endToEnd |-> [i \in 1..n |-> 0],
                          network |-> [i \in 1..n |-> 0],
                          inference |-> [i \in 1..n |-> 0],
                          overlay |-> << >>]
    /\ session = FALSE
    /\ initialized = TRUE
    /\ processingQueue = << >>
    /\ isProcessing = FALSE
    /\ active = {}
    /\ nextFrame = 1
    /\ pending = << >>
    /\ outcome = << >>
    /\ dispatched = << >>
    /\ evicted = {}
    /\ ev = Event("init", 0, NULL, "none", {}, FALSE, {}, 0)
    /\ droppedFrames = 0
    /\ lastResetTime = 0
    /\ bandwidth = [uplink |-> << >>, downlink |-> << >>]
    /\ systemMetrics = [cpuUsage |-> << >>, memoryUsage |-> << >>, timestamp |-> << >>]
    /\ snapshot = NoSnapshot
    /\ call = NoCall
    /\ mode = "wasm"
    /\ maxQueueSize = MaxQueueSize
    /\ transport = "http"
    /\ now = 0

\* recordFrame(result) for a frame the handler received and answered now.
recordFrameNow(detections) ==
    /\ initialized
    /\ totalFrames < maxFrameHistory - 1 + MaxRecords
    /\ recordFrame(processedFrames + 1, now, now, now, detections)
    /\ UNCHANGED <<serviceVars, handlerVars, brokerVars, managerVars, now>>

\* The server stays without a request for the length of the rolling window.
Idle ==
    /\ now < MaxNow * metricsWindow
    /\ now' = now + metricsWindow
    /\ UNCHANGED <<brokerVars, pipeVars, managerVars>>

NextHistory ==
    \/ \E d \in RecordedLists : recordFrameNow(d)
    \/ Tick
    \/ Idle

SpecHistory == InitHistory /\ [][NextHistory]_vars

\* The pipeline of a server that also stays idle for the length of the
\* rolling window, so that records leave the frame history.
NextLifecycle ==
    \/ NextPipeLive
    \/ Idle

SpecLifecycle == InitPipeLive /\ [][NextLifecycle]_vars

\* The room the phone page joins: const roomId = 'main-room'.
MainRoom == "main-room"

\* PhoneApp.initializeSocket and DesktopApp.initializeSocket: io() connects,
\* and the 'register' event emitted right after io() reaches the broker once
\* the socket is connected, with the type of the page.
phoneRegisters(p) ==
    /\ phase[p] = "open"
    /\ clients[p].type = NULL
    /\ handleRegister(p, "phone")

desktopRegisters(p) ==
    /\ phase[p] = "open"
    /\ clients[p].type = NULL
    /\ handleRegister(p, "desktop")

\* PhoneApp.joinRoom, called by initialize once the socket is connected and
\* the peer connection is set up. The desktop page has no such call: after
\* 'register' its only emissions are the offer that the 'peer-joined'
\* listener of WebRTCManager creates and what follows from that offer.
phoneJoins(p) ==
    /\ phase[p] = "open"
    /\ clients[p].type = "phone"
    /\ clients[p].room = NULL
    /\ handleJoinRoom(p, MainRoom)

\* The page is closed.
pageCloses(p) ==
    /\ phase[p] = "open"
    /\ handleDisconnect(p)

\* What the pages do without a message from the broker.
pagesRun ==
    \/ \E p \in Peers : handleConnection(p)
    \/ \E p \in Peers : phoneRegisters(p)
    \/ \E p \in Peers : desktopRegisters(p)
    \/ \E p \in Peers : phoneJoins(p)

NextClients ==
    \/ pagesRun
    \/ \E p \in Peers : pageCloses(p)
    \/ Tick

\* The broker with the shipped pages as its clients; a page that is open
\* goes on with its start-up.
SpecClients == InitBroker /\ [][NextClients]_vars /\ WF_vars(pagesRun)

\* The DetectionManager of the desktop page on its own: frames come from the
\* render loop and from the test button while earlier calls are pending.
InitManager == InitMetrics

NextManager ==
    \/ \E loaded \in BOOLEAN : initializeWASM(loaded)
    \/ detectWASM
    \/ \E f \in 1..MaxClientFrames : wasmInferenceSettles(f)
    \/ Tick

SpecManager == InitManager /\ [][NextManager]_vars

\* The broker fed with malformed events next to well-formed joins.
NextMalformed ==
    \/ \E p \in Peers : handleConnection(p)
    \/ \E p \in Peers, t \in Types : handleRegister(p, t)
    \/ \E p \in Peers, r \in MalformedRoomIds : handleJoinRoom(p, r)
    \/ \E p \in Peers, d \in MalformedRelays(Offers) :
          handleOffer(p, d.targetId, d.payload)
    \/ \E p \in Peers, d \in MalformedRelays(Answers) :
          handleAnswer(p, d.targetId, d.payload)
    \/ \E p \in Peers, d \in MalformedRelays(Candidates) :
          handleIceCandidate(p, d.targetId, d.payload)
    \/ \E p \in Peers, d \in MalformedRelays(Messages) :
          handleDataChannelMessage(p, d.targetId, d.payload)
    \/ \E p \in Peers : handleDisconnect(p)
    \/ Tick

SpecMalformed == InitBroker /\ [][NextMalformed]_vars

\* calculatePercentile on its own, on a collector as constructed: the
\* arguments are drawn at the start and the call is made once.
InitPercentile ==
    /\ InitBrokerVars
    /\ InitManagerVars
    /\ InitPipeVars
    /\ call \in {PercentileCall(values, percentile) :
                    values \in SeriesInputs, percentile \in Percentiles}
    /\ mode = "wasm"
    /\ maxQueueSize = MaxQueueSize
    /\ transport = "http"
    /\ now = 0

NextPercentile == callPercentile

SpecPercentile == InitPercentile /\ [][NextPercentile]_vars

(* ---------------------------------------------------------------------- *)
(* Properties of the broker                                                *)
(* ---------------------------------------------------------------------- *)

\* The rooms whose member set holds peer p.
roomsOf(p) == {r \in DOMAIN rooms : p \in rooms[r].clients}

\* C1: the room map never holds a room with an empty member set, and a room
\* that no connected peer has as its current room (its last member has left
\* or disconnected) is not found by getRoomInfo.
C1_RoomLifecycle ==
    /\ \A r \in DOMAIN rooms : rooms[r].clients # {}
    /\ \A r \in RoomIds :
          (\A p \in DOMAIN clients : clients[p].room # r) => ~getRoomInfo(r).found

\* C2: a peer id is a member of at most one room, and after a join-room of a
\* connected peer that peer is a member of exactly the room it joined.
C2_SingleRoom ==
    /\ \A p \in Peers : Cardinality(roomsOf(p)) <= 1
    /\ (last.op = "join-room" /\ last.id \in DOMAIN clients)
          => roomsOf(last.id) = {last.roomId}

\* C9: a relayed message (offer, answer, ice-candidate, data-channel-message)
\* from a peer the broker does not know, or from a peer that has no current
\* room, reaches no socket at all, the sender included.
C9_RelayPrecondition ==
    (/\ last.op \in RelayKinds
     /\ \/ last.id \notin DOMAIN clients
        \/ clients[last.id].room = NULL)
    => outbox = {}

\* C9 witness: a connected peer that never joined a room has just sent a
\* relay message to another connected peer.
C9_Witness ==
    /\ last.op \in RelayKinds
    /\ last.id \in DOMAIN clients
    /\ clients[last.id].room = NULL
    /\ last.targetId \in Peers \ {last.id}
    /\ phase[last.targetId] = "open"

\* C10: when a peer that has a current room sends a message of kind K with
\* payload P to another connected peer T, T receives exactly one message: of
\* kind K, with the sender's id as fromId and with payload P.
C10_VerbatimRelay ==
    (/\ last.op \in RelayKinds
     /\ last.id \in DOMAIN clients
     /\ clients[last.id].room # NULL
     /\ last.targetId \in Peers \ {last.id}
     /\ phase[last.targetId] = "open")
    => {m \in outbox : m.to = last.targetId}
          = {Msg(last.targetId, last.op, NULL, last.id, NULL, last.payload, NULL, {})}

\* The socket ids that name a connected peer.
connected == {q \in Peers : phase[q] = "open"}

\* C11: a relay whose targetId is not the id of a connected peer delivers no
\* message to any socket (the sender included, so no error reaches it) and
\* leaves the rooms and clients maps as they were.
C11_SilentRoutingError ==
    [][(/\ last'.op \in RelayKinds
        /\ now' = now
        /\ last'.targetId \notin connected)
       => (outbox' = {} /\ rooms' = rooms /\ clients' = clients)]_vars

\* The body of the room-joined event the last handler sent to peer p.
roomJoined(p) == {m \in outbox : m.event = "room-joined" /\ m.to = p}

\* C12: the room-joined reply to a joining peer lists exactly the members of
\* the room joined, the joiner excepted, and every listed member is a peer of
\* the registry, listed with the role it has registered.
C12_JoinAcknowledgment ==
    (last.op = "join-room" /\ last.id \in DOMAIN clients) =>
        /\ Cardinality(roomJoined(last.id)) = 1
        /\ \A m \in roomJoined(last.id) :
              /\ m.roomId = last.roomId
              /\ {c.clientId : c \in m.clients}
                    = rooms[last.roomId].clients \ {last.id}
              /\ \A c \in m.clients :
                    /\ c.clientId \in DOMAIN clients
                    /\ c.type = clients[c.clientId].type

\* The sockets that received a peer-joined event from the last handler.
peerJoinedTo == {m.to : m \in {x \in outbox : x.event = "peer-joined"}}

\* C13: when a connected peer joins a room, the sockets that receive
\* peer-joined are exactly the other members of that room, and each event
\* carries the joiner's id and role.
C13_JoinNotification ==
    (last.op = "join-room" /\ last.id \in DOMAIN clients) =>
        /\ peerJoinedTo = rooms[last.roomId].clients \ {last.id}
        /\ \A m \in outbox : m.event = "peer-joined" =>
              (m.clientId = last.id /\ m.type = clients[last.id].type)

\* C14: when a peer that has a current room disconnects, it leaves the
\* clients map and the member set of that room, every member that remains
\* receives peer-left with its id, and the room stays in the room map exactly
\* when a member remains.
C14_DisconnectCleanup ==
    [][(/\ last'.op = "disconnect"
        /\ now' = now
        /\ last'.id \in DOMAIN clients
        /\ clients[last'.id].room # NULL)
       => LET p == last'.id
              r == clients[p].room
              rest == rooms[r].clients \ {p}
          IN  /\ p \notin DOMAIN clients'
              /\ \A x \in DOMAIN rooms' : p \notin rooms'[x].clients
              /\ IF rest = {}
                 THEN r \notin DOMAIN rooms'
                 ELSE r \in DOMAIN rooms' /\ rooms'[r].clients = rest
              /\ \A q \in rest :
                    Msg(q, "peer-left", p, NULL, NULL, NULL, NULL, {}) \in outbox'
      ]_vars

\* C15: a register of a peer of the registry sets its role to the one given,
\* whatever it was, touches nothing else and sends that peer one registered
\* event with its id and the role, so a register with the role the peer
\* already has leaves the maps as they are; a register of a socket id that is
\* not in the registry changes nothing and sends nothing.
C15_Register ==
    [][(last'.op = "register" /\ now' = now)
       => LET p == last'.id
              t == last'.type
          IN  /\ rooms' = rooms
              /\ IF p \in DOMAIN clients
                 THEN /\ clients' = [clients EXCEPT ![p].type = t]
                      /\ outbox' = {Msg(p, "registered", p, NULL, t, NULL, NULL, {})}
                      /\ clients[p].type = t => clients' = clients
                 ELSE /\ clients' = clients
                      /\ outbox' = {}
      ]_vars

\* C15 witness: a peer that shares a room with another peer has registered
\* a role other than the one the other peer has, and was told so.
C15_Witness ==
    /\ last.op = "register"
    /\ last.id \in DOMAIN clients
    /\ clients[last.id].type = last.type
    /\ clients[last.id].room = "r1"
    /\ \E q \in DOMAIN clients \ {last.id} :
          /\ clients[q].room = "r1"
          /\ clients[q].type \in Types \ {last.type}
    /\ \E m \in outbox : m.event = "registered" /\ m.to = last.id

\* The camera c (registered as phone) has joined room r1 on a fresh broker and
\* the viewer v (registered as desktop) is connected and in no room.
cameraWaits(c, v) ==
    /\ phase[c] = "open" /\ phase[v] = "open"
    /\ clients[c] = [type |-> "phone", room |-> "r1"]
    /\ clients[v] = [type |-> "desktop", room |-> NULL]
    /\ DOMAIN rooms = {"r1"}
    /\ rooms["r1"].clients = {c}
    /\ sio[c] = {c, "r1"} /\ sio[v] = {v}

\* The viewer v has joined the camera c in room r1.
bothInRoom(c, v) ==
    /\ phase[c] = "open" /\ phase[v] = "open"
    /\ clients[c] = [type |-> "phone", room |-> "r1"]
    /\ clients[v] = [type |-> "desktop", room |-> "r1"]
    /\ DOMAIN rooms = {"r1"}
    /\ rooms["r1"].clients = {c, v}
    /\ sio[c] = {c, "r1"} /\ sio[v] = {v, "r1"}

\* C19: a camera registers and joins r1, then a viewer registers and joins
\* r1: the viewer receives room-joined listing the camera with its role, the
\* camera receives peer-joined for the viewer, and no other event is sent.
\* When the viewer then sends an offer with the camera's id as targetId, the
\* camera and no other socket receives an offer with the viewer's id as
\* fromId and the offer sent.
C19_HappyPath ==
    [][\A c, v \in Peers :
          /\ (/\ cameraWaits(c, v)
              /\ last'.op = "join-room" /\ last'.id = v /\ last'.roomId = "r1")
             => /\ outbox' =
                      {Msg(v, "room-joined", NULL, NULL, NULL, NULL, "r1",
                           {[clientId |-> c, type |-> "phone"]}),
                       Msg(c, "peer-joined", v, NULL, "desktop", NULL, NULL, {})}
                /\ bothInRoom(c, v)'
          /\ (/\ bothInRoom(c, v)
              /\ last'.op = "offer" /\ last'.id = v /\ last'.targetId = c)
             => /\ outbox' =
                      {Msg(c, "offer", NULL, v, NULL, last'.payload, NULL, {})}
                /\ bothInRoom(c, v)'
      ]_vars

\* C19 witness: the viewer has joined the camera in r1 and its offer has just
\* been delivered to the camera.
C19_Witness ==
    \E c, v \in Peers :
        /\ bothInRoom(c, v)
        /\ last.op = "offer" /\ last.id = v /\ last.targetId = c
        /\ outbox = {Msg(c, "offer", NULL, v, NULL, last.payload, NULL, {})}

\* C21: a relay event whose body lacks targetId, or that has no body, is a
\* no-op: the handler does not throw, no socket receives a message and the
\* broker state is unchanged.
C21_MalformedRelay ==
    [][(/\ last'.op \in RelayKinds
        /\ now' = now
        /\ last'.targetId \in {UNDEFINED, NoData})
       => /\ thrown' = NULL
          /\ outbox' = {}
          /\ UNCHANGED <<phase, clients, rooms, sio>>]_vars

\* C22: a join-room event whose roomId is missing, undefined or empty is a
\* no-op: the handler does not throw, no room is created, the peer's current
\* room and every room's member set are unchanged, and no event is sent.
C22_MalformedJoin ==
    [][(/\ last'.op = "join-room"
        /\ now' = now
        /\ ~Truthy(last'.roomId))
       => /\ thrown' = NULL
          /\ rooms' = rooms
          /\ clients' = clients
          /\ outbox' = {}]_vars

\* The phone page c and the desktop page v are connected and registered.
bothRegistered(c, v) ==
    /\ phase[c] = "open" /\ phase[v] = "open"
    /\ clients[c].type = "phone"
    /\ clients[v].type = "desktop"

\* The last handler sent v the peer-joined of the phone c, on which the
\* WebRTCManager of the desktop page creates and sends its offer.
notifiedOfPhone(v, c) ==
    \E m \in outbox :
        m.to = v /\ m.event = "peer-joined" /\ m.clientId = c /\ m.type = "phone"

\* C33: with the shipped pages, once a phone page and a desktop page are both
\* connected and registered, in either order, the broker notifies the desktop
\* of the phone (peer-joined with type 'phone'), which is what makes the
\* desktop send the offer that the broker is to relay to the phone; a page
\* that is closed in the meantime ends the obligation.
C33_SessionSetup ==
    \A c, v \in Peers :
        bothRegistered(c, v)
           ~> (notifiedOfPhone(v, c) \/ phase[c] # "open" \/ phase[v] # "open")

\* C34: after every handler, a connected peer's recorded room is r exactly
\* when the peer is in the member set of r, and every member of every room is
\* a connected peer with a client record.
C34_RegistryRoomConsistency ==
    /\ \A c \in DOMAIN clients, r \in DOMAIN rooms :
          clients[c].room = r <=> c \in rooms[r].clients
    /\ \A c \in DOMAIN clients :
          (clients[c].room # NULL /\ clients[c].room # UNDEFINED)
             => clients[c].room \in DOMAIN rooms
    /\ \A r \in DOMAIN rooms :
          \A id \in rooms[r].clients : id \in DOMAIN clients /\ phase[id] = "open"

\* C35: a relayed message is received by no socket other than the one whose
\* id equals targetId, and never by its sender, whatever targetId is, the
\* name of a room that peers have joined included.
C35_RelayConfinement ==
    \A m \in outbox :
        m.event \in RelayKinds => (m.to = last.targetId /\ m.to # last.id)

\* C36: a join-room for the room the peer is already in leaves the member
\* set and the creation timestamp of that room as they were, whether the peer
\* is the only member or not.
C36_RejoinIdempotence ==
    [][\A p \in DOMAIN clients, r \in DOMAIN rooms :
          (/\ last'.op = "join-room" /\ last'.id = p /\ last'.roomId = r
           /\ now' = now
           /\ clients[p].room = r
           /\ p \in rooms[r].clients)
          => /\ r \in DOMAIN rooms'
             /\ rooms'[r].clients = rooms[r].clients
             /\ rooms'[r].created = rooms[r].created]_vars

\* The sockets the last handler told that peer p left.
peerLeftTo(p) ==
    {m.to : m \in {x \in outbox : x.event = "peer-left" /\ x.clientId = p}}

\* C23: when a peer that is a member of room A joins a different room B, it
\* is taken out of A and every connected member that remains in A receives
\* peer-left for that peer.
C23_LeaveNotification ==
    [][\A p \in Peers, A \in DOMAIN rooms :
          (/\ last'.op = "join-room" /\ last'.id = p
           /\ now' = now
           /\ p \in DOMAIN clients
           /\ clients[p].room = A
           /\ p \in rooms[A].clients
           /\ last'.roomId # A)
          => /\ A \in DOMAIN rooms' => p \notin rooms'[A].clients
             /\ (rooms[A].clients \ {p}) \cap connected \subseteq peerLeftTo(p)'
      ]_vars

\* C24: a disconnect handled for a peer whose disconnect was handled before
\* changes neither the clients map nor any room and sends no event.
C24_DisconnectIdempotent ==
    [][(/\ last'.op = "disconnect"
        /\ now' = now
        /\ phase[last'.id] = "closed")
       => /\ clients' = clients
          /\ rooms' = rooms
          /\ outbox' = {}
          /\ thrown' = NULL]_vars

\* C24 witness: the last handler was a disconnect that found no client
\* record, while the other peer is still a member of a room.
C24_Witness ==
    /\ last.op = "disconnect"
    /\ last.roomId = UNDEFINED
    /\ phase[last.id] = "closed"
    /\ \E q \in DOMAIN clients : \E r \in DOMAIN rooms :
          clients[q].room = r /\ q \in rooms[r].clients

\* C27: a relay message from a peer that has a current room reaches the
\* connected peer it names as target when that peer is in another room or in
\* no room.
C27_CrossRoomRelay ==
    (/\ last.op \in RelayKinds
     /\ last.id \in DOMAIN clients
     /\ clients[last.id].room # NULL
     /\ last.targetId \in connected \ {last.id}
     /\ clients[last.targetId].room # clients[last.id].room)
    => \E m \in outbox :
          /\ m.to = last.targetId
          /\ m.event = last.op
          /\ m.fromId = last.id
          /\ m.payload = last.payload

(* ---------------------------------------------------------------------- *)
(* Properties of the detection pipeline                                    *)
(* ---------------------------------------------------------------------- *)

\* The frames of a sequence.
framesOf(q) == {q[i] : i \in 1..Len(q)}

\* The position of frame f in the dispatch order, 0 when it was not dispatched.
dispatchIndex(f) ==
    IF f \in framesOf(dispatched)
    THEN CHOOSE i \in 1..Len(dispatched) : dispatched[i] = f
    ELSE 0

\* C3: the number of frames waiting in the queue never exceeds maxQueueSize.
C3_AdmissionBound == Len(processingQueue) <= maxQueueSize

\* C3 witness: a request found the queue full, the oldest frame was shifted
\* out and the queue is at its bound again.
C3_Witness ==
    /\ ev.op = "request"
    /\ ev.dropped # {}
    /\ ev.depth = maxQueueSize
    /\ Len(processingQueue) = maxQueueSize

\* C4: at most one runInference call is pending at any time, and a frame is
\* handed to runInference only when no call is pending or the pending call
\* settles in the same step.
C4_AtMostOneInflight ==
    /\ [](Cardinality(active) <= 1)
    /\ [][dispatched' # dispatched => (active \ active') = active]_vars

\* C4 witness: requests arrived while a call was pending and wait in the queue.
C4_Witness ==
    /\ Cardinality(active) = 1
    /\ Len(processingQueue) >= 1
    /\ ev.op = "request"

\* C5: frames are numbered in the order of their requests; if B was handed to
\* runInference and A was requested before B and was not evicted, then A was
\* handed to runInference before B, and no frame is handed over twice.
C5_FifoPreservation ==
    /\ \A i, j \in 1..Len(dispatched) : i < j => dispatched[i] # dispatched[j]
    /\ \A a, b \in 1..MaxFrames :
          (a < b /\ b \in framesOf(dispatched) /\ a \notin evicted)
          => (a \in framesOf(dispatched) /\ dispatchIndex(a) < dispatchIndex(b))

\* C5 witness: three frames were dispatched, the later ones after waiting,
\* and one frame between them was evicted.
C5_Witness ==
    /\ Len(dispatched) >= 3
    /\ evicted # {}

\* C6: a request that finds the queue at or above maxQueueSize evicts exactly
\* the oldest waiting frame, leaves the pending call alone and puts the new
\* frame at the tail; a request that finds it below maxQueueSize evicts
\* nothing.
C6_OldestDrop ==
    [][(nextFrame' = nextFrame + 1 /\ mode = "server") =>
          IF Len(processingQueue) >= maxQueueSize
          THEN /\ evicted' = evicted \cup {Head(processingQueue)}
               /\ Head(processingQueue) \notin active
               /\ active' = active
               /\ dispatched' = dispatched
               /\ processingQueue' = Append(Tail(processingQueue), nextFrame)
          ELSE /\ evicted' = evicted
               /\ \/ processingQueue' = Append(processingQueue, nextFrame)
                  \/ /\ processingQueue = << >>
                     /\ processingQueue' = << >>
                     /\ active' = active \cup {nextFrame}
      ]_vars

\* C6 witness: a request has just evicted a frame from a queue that held more
\* than one.
C6_Witness ==
    /\ ev.op = "request"
    /\ ev.dropped # {}
    /\ ev.depth >= 2

\* C7: the dropped-frame counter of the collector counts the evictions, so it
\* equals the requests made minus the frames waiting or already dispatched.
C7_DroppedAccounting ==
    /\ droppedFrames = Cardinality(evicted)
    /\ mode = "server" =>
          droppedFrames = (nextFrame - 1) - (Len(processingQueue) + Len(dispatched))

answered == {f \in DOMAIN outcome : outcome[f] = "result"}

\* C18: the request of a frame that was shifted out of the queue before its
\* dispatch is never resolved and never rejected: the frame is never handed
\* to runInference, its handler never resumes, so it is never recorded and
\* never answered, and its request stays pending as it was; the frames
\* recorded are exactly the frames answered.
C18_Abandonment ==
    /\ [](\A f \in evicted :
             /\ f \notin DOMAIN outcome
             /\ f \notin framesOf(dispatched)
             /\ f \notin active
             /\ f \notin framesOf(processingQueue)
             /\ f \in DOMAIN pending)
    /\ []({frames[i].frameId : i \in 1..Len(frames)} = answered)
    /\ [][\A f \in evicted :
             /\ f \in evicted'
             /\ pending'[f] = pending[f]
             /\ ev'.op = "settle" => ev'.frame # f]_vars

\* C18 witness: a frame was shifted out, a frame requested after it was
\* answered, and the queue has run empty with no call pending.
C18_Witness ==
    /\ \E f \in evicted : \E g \in answered : f < g
    /\ processingQueue = << >>
    /\ active = {}
    /\ ~isProcessing

\* C20: with maxQueueSize = 2, once frames 1, 2 and 3 have been requested
\* and no inference has completed, the queue holds frames 2 and 3, one frame
\* has been dropped and counted, and frame 1 has not been handed to
\* runInference.
C20_DropUnderLoad ==
    (/\ mode = "server" /\ initialized
     /\ maxQueueSize = 2
     /\ nextFrame = 4
     /\ DOMAIN outcome = {})
    => /\ processingQueue = <<2, 3>>
       /\ evicted = {1}
       /\ droppedFrames = 1
       /\ 1 \notin framesOf(dispatched)
       /\ 1 \notin active

\* C30: recv_ts of a frame that goes through the queue is the time at which
\* processQueue takes it out of the queue for dispatch, and inference_ts the
\* time at which its inference completes, so that inference_ts - recv_ts
\* leaves out the time the frame waited in the queue.
C30_TimestampStamping ==
    [][/\ \A f \in active' \ active : pending'[f].recvTs = now'
       /\ (ev'.op = "settle" /\ processedFrames' = processedFrames + 1)
             => frames'[Len(frames')].inferenceTs = now']_vars

\* The queue is empty, no drain loop runs and no call is pending.
idle == processingQueue = << >> /\ ~isProcessing /\ active = {}

\* C28: when the requests have stopped and every runInference call settles,
\* the queue ends up empty with the drain loop idle for good; while idle,
\* nothing but a new request changes the queue, the loop or the calls.
C28_StarvationFreedom ==
    /\ <>[]idle
    /\ [][(idle /\ nextFrame' = nextFrame)
          => UNCHANGED <<processingQueue, isProcessing, active, dispatched>>]_vars

\* C28 witness: the loop has drained a queue that held waiting frames and is
\* idle again.
C28_Witness ==
    /\ idle
    /\ ev.op = "settle"
    /\ Len(dispatched) >= 3
    /\ evicted # {}

\* session.run threw for the frame whose inference settled last.
failedSettle == ev.op = "settle" /\ ev.failed

\* What the drain loop does in the step in which a failed inference settles:
\* it takes the oldest waiting frame, or ends and clears isProcessing.
drainGoesOn ==
    (ev'.op = "settle" /\ ev'.failed /\ ev' # ev) =>
        IF Len(processingQueue) = 0
        THEN /\ ~isProcessing'
             /\ active' = {}
             /\ processingQueue' = << >>
        ELSE /\ isProcessing'
             /\ active' = {Head(processingQueue)}
             /\ processingQueue' = Tail(processingQueue)
             /\ dispatched' = Append(dispatched, Head(processingQueue))

\* C32: after the inference of a frame has failed the drain loop goes on: it
\* takes the next frame in order or, the queue being empty, clears
\* isProcessing, and every frame waiting behind the failed one is dispatched
\* in the end.
C32_NeverStalls ==
    /\ [][drainGoesOn]_vars
    /\ \A f \in 1..MaxFrames :
          (failedSettle /\ f \in framesOf(processingQueue))
             ~> (f \in framesOf(dispatched))

\* C32 as amended: after the inference of a frame has failed the drain loop
\* goes on: it takes the next frame in order or, the queue being empty,
\* clears isProcessing, and every frame waiting behind the failed one is
\* dispatched in the end unless a later request shifts it out of the full
\* queue.
C32_NeverStallsUnlessDropped ==
    /\ [][drainGoesOn]_vars
    /\ \A f \in 1..MaxFrames :
          (failedSettle /\ f \in framesOf(processingQueue))
             ~> (f \in framesOf(dispatched) \/ f \in evicted)

\* The inference of a frame failed with two frames waiting: the first of them
\* is with runInference, the second still waits.
C32_Witness ==
    /\ failedSettle
    /\ ev.depth = 2
    /\ isProcessing
    /\ active # {}
    /\ Len(processingQueue) = 1

\* C39: whenever control is back with the event loop and the queue is not
\* empty, a drain loop is running (isProcessing is true); and, every
\* inference call completing, every frame that was admitted is resolved or
\* rejected in the end unless it is shifted out of the queue.
C39_NoLostWakeUp ==
    /\ [](Len(processingQueue) > 0 => isProcessing)
    /\ \A f \in 1..MaxFrames :
          (f \in framesOf(processingQueue) \/ f \in active)
             ~> (f \in DOMAIN outcome \/ f \in evicted)

\* A frame waits while another one is with runInference, after frames have
\* been answered and a frame has been shifted out of the queue.
C39_Witness ==
    /\ Len(processingQueue) > 0
    /\ isProcessing
    /\ active # {}
    /\ answered # {}
    /\ evicted # {}

recordedFrames == {frames[i].frameId : i \in 1..Len(frames)}

\* Where frame f stands: not arrived yet, waiting in the queue, handed to
\* runInference, rejected, in the frame history, gone from the history after
\* having been recorded, or shifted out of a full queue.
stage(f) ==
    IF f \in framesOf(processingQueue) THEN "queued"
    ELSE IF f \in active THEN "dispatched"
    ELSE IF f \in recordedFrames THEN "recorded"
    ELSE IF f \in DOMAIN outcome /\ outcome[f] = "result" THEN "evicted"
    ELSE IF f \in DOMAIN outcome THEN "rejected"
    ELSE IF f \in evicted THEN "dropped"
    ELSE "new"

\* The steps of the frame lifecycle.
forward(s, t) ==
    \/ s = t
    \/ <<s, t>> \in {<<"new", "queued">>, <<"new", "dispatched">>,
                     <<"new", "recorded">>, <<"new", "rejected">>,
                     <<"queued", "dispatched">>, <<"queued", "dropped">>,
                     <<"queued", "rejected">>, <<"dispatched", "recorded">>,
                     <<"dispatched", "rejected">>, <<"recorded", "evicted">>}

\* C31: every frame moves only forward through queued, dispatched, scored,
\* recorded and evicted. A frame has at most one record in the history and
\* gets it in the step in which its inference completes (in wasm mode, in
\* which detectObjects returns); a frame shifted out of the admission queue
\* is never dispatched, answered or recorded; a record that left the history
\* does not come back.
C31_FrameLifecycle ==
    /\ [](\A i, j \in 1..Len(frames) :
             frames[i].frameId = frames[j].frameId => i = j)
    /\ [](\A f \in evicted :
             /\ stage(f) = "dropped"
             /\ f \notin framesOf(dispatched))
    /\ [][\A f \in 1..MaxFrames :
             /\ forward(stage(f), stage(f)')
             /\ (stage(f) # "recorded" /\ stage(f)' = "recorded")
                   => /\ ev'.frame = f
                      /\ processedFrames' = processedFrames + 1
                      /\ frames'[Len(frames')].frameId = f
                      /\ \/ ev'.op = "settle" /\ f \in active
                         \/ ev'.op = "request" /\ mode = "wasm"]_vars

\* One frame was shifted out of the queue, one was recorded and has left the
\* history, one is in the history.
C31_Witness ==
    \E f, g, h \in 1..MaxFrames :
        /\ stage(f) = "dropped"
        /\ stage(g) = "evicted"
        /\ stage(h) = "recorded"
        /\ g \in framesOf(dispatched)
        /\ h \in framesOf(dispatched)

(* ---------------------------------------------------------------------- *)
(* Properties of the metrics collector                                     *)
(* ---------------------------------------------------------------------- *)

\* C29: after every recordFrame call the frame history holds at most
\* maxFrameHistory records, none of them older than the rolling window
\* (now - metricsWindow); what is left is the tail of the history with the
\* new record appended, so the records removed are the oldest ones, and the
\* record just appended is the last one kept.
C29_FrameHistoryEviction ==
    [][processedFrames' = processedFrames + 1 =>
          LET kept == Len(frames')
          IN  /\ kept <= maxFrameHistory
              /\ \A i \in 1..kept : frames'[i].timestamp >= now - metricsWindow
              /\ kept >= 1
              /\ \A i \in 1..Len(frames) : frames[i].frameId # frames'[kept].frameId
              /\ frames'[kept].timestamp = now
              /\ kept - 1 <= Len(frames)
              /\ \A i \in 1..(kept - 1) :
                    frames'[i] = frames[Len(frames) - (kept - 1) + i]]_vars

\* The cap has evicted the oldest record of a full history inside the window.
C29_Witness ==
    /\ Len(frames) = maxFrameHistory
    /\ processedFrames = maxFrameHistory + 1
    /\ frames[1].frameId = 2
    /\ frames[maxFrameHistory].frameId = processedFrames

\* C37: in every state of the collector, whatever recordFrame,
\* recordDroppedFrame, getMetrics and reset calls came before, totalFrames is
\* processedFrames + droppedFrames and none of the three counters is
\* negative.
C37_CounterInvariant ==
    /\ totalFrames = processedFrames + droppedFrames
    /\ totalFrames >= 0
    /\ processedFrames >= 0
    /\ droppedFrames >= 0

\* After a reset at time 1 one frame was recorded and one was dropped.
C37_Witness ==
    /\ lastResetTime = 1
    /\ processedFrames = 1
    /\ droppedFrames = 1
    /\ totalFrames = 2

\* C38: after every recordFrame each of the end-to-end, network and
\* inference series holds exactly one value per record kept in the frame
\* history, the value of that record, so that the percentiles of a snapshot
\* cover only the frames inside the rolling window and the history cap.
C38_LatencySeriesTrackHistory ==
    [][processedFrames' = processedFrames + 1 =>
          /\ Len(latencies'.endToEnd) = Len(frames')
          /\ Len(latencies'.network) = Len(frames')
          /\ Len(latencies'.inference) = Len(frames')
          /\ \A i \in 1..Len(frames') :
                /\ latencies'.endToEnd[i] = frames'[i].endToEndLatency
                /\ latencies'.network[i] = frames'[i].networkLatency
                /\ latencies'.inference[i] = frames'[i].inferenceLatency]_vars

\* C25: after reset() the frame history, the latency series, the bandwidth
\* series and the CPU and memory sample series are empty, the three counters
\* are zero and the window start is the time of the reset.
C25_Reset ==
    call.op = "reset" =>
        /\ frames = << >>
        /\ \A key \in {"endToEnd", "network", "inference"} : latencies[key] = << >>
        /\ bandwidth.uplink = << >> /\ bandwidth.downlink = << >>
        /\ systemMetrics.cpuUsage = << >> /\ systemMetrics.memoryUsage = << >>
        /\ totalFrames = 0 /\ processedFrames = 0 /\ droppedFrames = 0
        /\ lastResetTime = call.at

\* C26: recordDroppedFrame adds one to the dropped counter and one to the
\* total counter and leaves the processed counter, the frame history and the
\* latency series as they were.
C26_RecordDroppedFrame ==
    [][(call'.op = "recordDroppedFrame" /\ now' = now)
       => /\ droppedFrames' = droppedFrames + 1
          /\ totalFrames' = totalFrames + 1
          /\ UNCHANGED <<processedFrames, frames, latencies>>]_vars

\* C26 witness: a frame was dropped after a frame had been recorded.
C26_Witness ==
    /\ call.op = "recordDroppedFrame"
    /\ droppedFrames >= 1
    /\ processedFrames >= 1
    /\ Len(frames) >= 1
    /\ totalFrames = processedFrames + droppedFrames

\* Every series of the collector is empty and every counter is 0, as after
\* the constructor, or after reset() while no system sample was taken.
allSeriesEmpty ==
    /\ frames = << >>
    /\ totalFrames = 0 /\ processedFrames = 0 /\ droppedFrames = 0
    /\ \A key \in DOMAIN latencies : latencies[key] = << >>
    /\ bandwidth.uplink = << >> /\ bandwidth.downlink = << >>
    /\ \A key \in DOMAIN systemMetrics : systemMetrics[key] = << >>

\* The statistics of a getMetrics result.
statisticsOf(m) ==
    {m.frames.fps, m.frames.dropRate}
    \cup {m.latency.endToEnd[k] : k \in DOMAIN m.latency.endToEnd}
    \cup {m.latency.network[k] : k \in DOMAIN m.latency.network}
    \cup {m.latency.inference[k] : k \in DOMAIN m.latency.inference}
    \cup {m.bandwidth.uplink[k] : k \in DOMAIN m.bandwidth.uplink}
    \cup {m.bandwidth.downlink[k] : k \in DOMAIN m.bandwidth.downlink}
    \cup {m.system.cpu[k] : k \in DOMAIN m.system.cpu}
    \cup {m.system.memory[k] : k \in DOMAIN m.system.memory}

\* C16: a getMetrics result taken while every series is empty has 0 for
\* every statistic: median, p95, p99, average, min, max, fps, drop rate, and
\* the current / average / max of the bandwidth and system series.
C16_EmptySeriesSafety ==
    (snapshot.taken /\ allSeriesEmpty) => statisticsOf(snapshot) = {JSNum(0)}

\* The nearest-rank index of percentile p in a series of n values:
\* ceil(p / 100 * n) - 1.
nearestRank(p, n) == ((p * n + 99) \div 100) - 1

\* x is the element at 0-based index idx of the ascending sort of values.
isSortedElement(values, idx, x) ==
    /\ Cardinality({i \in 1..Len(values) : values[i] < x}) <= idx
    /\ idx < Cardinality({i \in 1..Len(values) : values[i] <= x})

\* C17: for a non-empty series of n values and a percentile p in 1 .. 100,
\* calculatePercentile returns the element at index ceil(p / 100 * n) - 1 of
\* the ascending sort, that index lies in 0 .. n - 1, and the series handed
\* in is not reordered.
C17_PercentileCorrectness ==
    call.op = "calculatePercentile" =>
        LET n == Len(call.values)
            idx == nearestRank(call.percentile, n)
        IN  /\ idx \in 0..(n - 1)
            /\ call.returned.kind = "number" /\ call.returned.den = 1
            /\ isSortedElement(call.values, idx, call.returned.num)
            /\ call.valuesAfter = call.values

====
